---------------------------- MODULE Spec2Model ----------------------------
(***************************************************************************)
(* A model of the django/react blog starter:                               *)
(*   - the production static-asset server (server.ts): loadStaticAssets,   *)
(*     serveAsset, startServer and its fetch handler;                      *)
(*   - the client's CSRF handling (getCookie.ts, api/blog.ts,              *)
(*     api/themes.ts, Login/SignUp/Logout pages);                          *)
(*   - the client's authentication state (useAuth.ts, Logout.tsx);         *)
(*   - the theme hook (useTheme.ts): theme loading and light/dark mode.    *)
(* Each subsystem has its own specification; the variables of the other    *)
(* subsystems stay at their initial value under it.                        *)
(***************************************************************************)
EXTENDS Integers, Sequences, FiniteSets, TLC

VARIABLES
  \* ---- server.ts ----
  pathSep,      \* the platform's path separator, as readdir returns paths
  disk,         \* the files under CLIENT_DIR: node -> [kind, size]
  dirReadable,  \* whether readdir(CLIENT_DIR) succeeds
  phase,        \* position of startServer
  todo,         \* entries of readdir not yet visited by the loop
  assets,       \* the asset cache: route -> Asset (Undefined when absent)
  indexHtml,    \* the shell read once at startup
  lastReq,      \* the request handled last by fetch
  lastResp,     \* the response returned for it
  exitCode,     \* the code of process.exit, Null while the process runs
  \* ---- the browser: cookies, requests, localStorage, useAuth ----
  projectEnv,   \* import.meta.env.VITE_PROJECT_NAME
  cookieJar,    \* document.cookie: a list of cookies, each name, '=', value
  lastSent,     \* the state-changing request the client sent last
  pageError,    \* the error the Login / SignUp / Logout page shows
  signupSuccess,\* SignUp's signupSuccess state
  storedUser,   \* localStorage 'user'
  auth,         \* each useAuth instance's user / isAuthenticated / isLoading
  listening,    \* the useAuth instances whose effect has registered listeners
  lastAuthEvent,\* the last thing that happened to the session in this tab
  \* ---- hooks/useTheme.ts: loading the theme ----
  envUseBackend,   \* import.meta.env.VITE_USE_BACKEND_THEMES
  envFrontendTheme,\* import.meta.env.VITE_FRONTEND_THEME
  themePc,         \* where loadAndApplyTheme stands: the await it is at
  themeNext,       \* what the code after that await will do
  themeRequests,   \* the requests loadAndApplyTheme made, in order, with their outcomes
  themeSettings,   \* useState themeSettings
  themeIsLoading,  \* useState isLoading
  themeError,      \* useState error
  domTheme,        \* the CSS variables applyThemeToDOM put into the document
  preloadedFonts,  \* useDynamicFonts' preloadedFonts
  \* ---- hooks/useTheme.ts: light and dark mode ----
  storedMode,      \* localStorage 'theme-mode'
  prefersDark,     \* matchMedia('(prefers-color-scheme: dark)').matches
  rootDark,        \* document.documentElement has class 'dark'
  themeMounted,    \* the components using useTheme that are rendered
  lightMode,       \* useState lightMode of each of them
  modePending,     \* the instances whose mode effect is scheduled
  toggleCount,     \* toggleLightMode calls since the page was rendered
  modeSettled,     \* class and stored value once the first effects had run
  \* ---- pages/blog/BlogEditor.tsx ----
  edMounted,       \* the editor is rendered
  edSlug,          \* prop slug: Undefined on /blog/new
  edInitialStatus, \* initialData?.status
  edTitle,         \* useState title
  edContent,       \* useState content
  edExcerpt,       \* useState excerpt
  edCategories,    \* useState selectedCategories
  edTags,          \* useState selectedTags
  edStatus,        \* useState status
  edSavedStatus,   \* useState savedStatus
  edImages,        \* featured / og -> [file, preview]
  edIsDirty,       \* useState isDirty
  edIsSaving,      \* useState isSaving
  edTimer,         \* the auto-save timeout: time elapsed, and the handleSave it will call
  edInFlight,      \* the createPost / updatePost call awaiting its response
  edSent,          \* the request this editor sent last by createPost / updatePost
  edLastSave,      \* its last call of handleSave that passed the title test
  edEverPublished, \* the post has been saved as published before
  \* ---- hooks/useDynamicFonts.ts ----
  loadedFonts,          \* the module's Set loadedFonts
  fontLoadingPromises,  \* the keys of the module's Map fontLoadingPromises
  fontLinks,            \* the <link> elements appended to document.head, in order
  \* ---- components/blog/editor/SeoAnalysis.tsx ----
  seoMounted,              \* the component is rendered
  seoProps,                \* content, title, metaDescription, focusKeyword, excerpt
  seoTimer,                \* the debounce timeout: time elapsed, and the props it closed over
  lastAnalyzedContentRef,  \* useRef lastAnalyzedContentRef.current
  seoRunning,              \* the analysis awaiting its imports, or Null
  seoResults               \* what the panel displays: results and overall scores

serverVars == <<pathSep, disk, dirReadable, phase, todo, assets, indexHtml,
                lastReq, lastResp, exitCode>>
themeVars == <<envUseBackend, envFrontendTheme, themePc, themeNext, themeRequests,
               themeSettings, themeIsLoading, themeError, domTheme, preloadedFonts>>
modeVars == <<storedMode, prefersDark, rootDark, themeMounted, lightMode, modePending,
              toggleCount, modeSettled>>
editorVars == <<edMounted, edSlug, edInitialStatus, edTitle, edContent, edExcerpt,
                edCategories, edTags, edStatus, edSavedStatus, edImages, edIsDirty,
                edIsSaving, edTimer, edInFlight, edSent, edLastSave, edEverPublished>>
fontVars == <<loadedFonts, fontLoadingPromises, fontLinks>>
seoVars == <<seoMounted, seoProps, seoTimer, lastAnalyzedContentRef, seoRunning, seoResults>>
pageVars == <<editorVars, fontVars, seoVars>>
clientVars == <<projectEnv, cookieJar, lastSent, pageError, signupSuccess,
                storedUser, auth, listening, lastAuthEvent>>

(***************************************************************************)
(* JavaScript values.  Every optional value is a record, so that an absent *)
(* value can be compared with a present one.                               *)
(***************************************************************************)
Null == [null |-> TRUE]
Undefined == [undefined |-> TRUE]
Str(s) == [str |-> s]

(***************************************************************************)
(* server.ts: configuration                                                *)
(***************************************************************************)
MAX_ASSET_SIZE == 5 * 1024 * 1024
GZIP_THRESHOLD == 1024
ENABLE_GZIP == TRUE
ENABLE_ETAGS == TRUE

\* The build output: the nodes under CLIENT_DIR, each a list of segments.
IndexNode == <<"index.html">>
DirNode == <<"assets">>
NestedNode == <<"assets", "app.js">>
BlobNode == <<"blob">>
Nodes == {IndexNode, DirNode, NestedNode, BlobNode}

\* File sizes around the two thresholds of the server.
Sizes == {0, 1, GZIP_THRESHOLD, GZIP_THRESHOLD + 1, MAX_ASSET_SIZE, MAX_ASSET_SIZE + 1}

\* The relative path readdir returns for a node: segments joined by the
\* platform separator, as a sequence of tokens.
RECURSIVE JoinSegments(_, _)
JoinSegments(segs, sep) ==
  IF Len(segs) = 0 THEN <<>>
  ELSE IF Len(segs) = 1 THEN <<segs[1]>>
  ELSE <<segs[1], sep>> \o JoinSegments(Tail(segs), sep)

RelativePath(node) == JoinSegments(node, pathSep)

\* readdir(CLIENT_DIR, {recursive: true}): directories and files that exist.
ReaddirOrder == <<DirNode, IndexNode, NestedNode, BlobNode>>
Readdir == SelectSeq(ReaddirOrder, LAMBDA n : disk[n].kind # "absent")

\* `/${relativePath.split('\\').join('/')}`
RouteOf(relativePath) ==
  <<"/">> \o [i \in 1..Len(relativePath) |->
                IF relativePath[i] = "\\" THEN "/" ELSE relativePath[i]]

\* Bun.file(path).type, by extension; "" when Bun knows none.
FileType(node) ==
  LET name == node[Len(node)] IN
  IF name = "index.html" THEN "text/html;charset=utf-8"
  ELSE IF name = "app.js" THEN "text/javascript;charset=utf-8"
  ELSE ""

\* The bytes of a file: what it holds and how many they are.
ContentOf(node) == [data |-> node[Len(node)], length |-> disk[node].size]

\* createHash('md5').update(content).digest('hex'), wrapped in double quotes
Md5Hex(content) == <<"md5", content.data, content.length>>
generateETag(content) == [quote |-> "\"", hex |-> Md5Hex(content), weak |-> FALSE]

\* Bun.gzipSync(content)
gzipContent(content) == [gzipOf |-> content]

Routes == {RouteOf(JoinSegments(n, "/")) : n \in Nodes}

(***************************************************************************)
(* loadStaticAssets: one iteration of the loop over readdir's entries      *)
(***************************************************************************)
ShouldLoadInMemoryExclusive(fileSize) == fileSize < MAX_ASSET_SIZE
ShouldLoadInMemory(fileSize) == fileSize <= MAX_ASSET_SIZE

ShouldGzipInclusive(content) == ENABLE_GZIP /\ content.length >= GZIP_THRESHOLD
ShouldGzip(content) == ENABLE_GZIP /\ content.length > GZIP_THRESHOLD

MemoryAssetNoEtag(node) ==
  LET content == ContentOf(node) IN
  [content |-> content,
   type |-> IF FileType(node) # "" THEN FileType(node) ELSE "application/octet-stream",
   etag |-> Undefined,
   gzipped |-> IF ShouldGzip(content) THEN gzipContent(content) ELSE Undefined,
   path |-> Undefined]
MemoryAsset(node) ==
  LET content == ContentOf(node) IN
  [content |-> content,
   type |-> IF FileType(node) # "" THEN FileType(node) ELSE "application/octet-stream",
   etag |-> IF ENABLE_ETAGS THEN generateETag(content) ELSE Undefined,
   gzipped |-> IF ShouldGzip(content) THEN gzipContent(content) ELSE Undefined,
   path |-> Undefined]

DiskAsset(node) ==
  [content |-> Null,
   type |-> IF FileType(node) # "" THEN FileType(node) ELSE "application/octet-stream",
   etag |-> Undefined,
   gzipped |-> Undefined,
   path |-> Str(RelativePath(node))]

\* file.exists(): a regular file, not a directory
FileExists(node) == disk[node].kind = "file"

\* process.exit(code) in the catch of startServer()
ProcessExitSuccess(code) == [code |-> 0]
ProcessExit(code) == [code |-> code]

StartLoading ==
  /\ phase = "init"
  /\ IF dirReadable
       THEN phase' = "loading" /\ todo' = Readdir /\ exitCode' = exitCode
       ELSE phase' = "exited" /\ todo' = <<>> /\ exitCode' = ProcessExit(1)
  /\ UNCHANGED <<pathSep, disk, dirReadable, assets, indexHtml, lastReq, lastResp>>
  /\ UNCHANGED <<clientVars, themeVars, modeVars, pageVars>>

LoadAsset ==
  /\ phase = "loading"
  /\ Len(todo) > 0
  /\ LET node == Head(todo)
         route == RouteOf(RelativePath(node))
     IN  IF ~FileExists(node) \/ disk[node].size = 0
           THEN assets' = assets
           ELSE IF ShouldLoadInMemory(disk[node].size)
             THEN assets' = [assets EXCEPT ![route] = MemoryAsset(node)]
             ELSE assets' = [assets EXCEPT ![route] = DiskAsset(node)]
  /\ todo' = Tail(todo)
  /\ UNCHANGED <<pathSep, disk, dirReadable, phase, indexHtml, lastReq, lastResp, exitCode>>
  /\ UNCHANGED <<clientVars, themeVars, modeVars, pageVars>>

(***************************************************************************)
(* startServer: after the assets, read index.html once, then serve         *)
(***************************************************************************)
ReadIndex ==
  /\ phase = "loading"
  /\ Len(todo) = 0
  /\ IF disk[IndexNode].kind = "file"
       THEN /\ indexHtml' = Str(ContentOf(IndexNode))
            /\ phase' = "serving"
            /\ exitCode' = exitCode
       ELSE /\ indexHtml' = indexHtml
            /\ phase' = "exited"
            /\ exitCode' = ProcessExit(1)
  /\ UNCHANGED <<pathSep, disk, dirReadable, todo, assets, lastReq, lastResp>>
  /\ UNCHANGED <<clientVars, themeVars, modeVars, pageVars>>

(***************************************************************************)
(* serveAsset                                                              *)
(***************************************************************************)
RECURSIVE Includes(_, _)
Includes(s, t) ==
  IF Len(s) < Len(t) THEN FALSE
  ELSE IF SubSeq(s, 1, Len(t)) = t THEN TRUE
  ELSE Includes(Tail(s), t)

Gzip == <<"g", "z", "i", "p">>

\* request.headers.get('accept-encoding') || ''
AcceptEncodingOf(request) ==
  IF request.acceptEncoding = Null THEN <<>> ELSE request.acceptEncoding.str

NoHeaders ==
  [contentType |-> Undefined, cacheControl |-> Undefined, etag |-> Undefined,
   contentEncoding |-> Undefined]

Response(status, headers, body) == [status |-> status, headers |-> headers, body |-> body]

AssetHeaders(asset) ==
  [NoHeaders EXCEPT !.contentType = Str(asset.type),
                    !.cacheControl = Str("public, max-age=31536000, immutable"),
                    !.etag = asset.etag]

serveAssetGzipFirst(request, route) ==
  LET asset == assets[route] IN
  IF asset = Undefined THEN Null
  ELSE IF asset.content # Null /\ asset.gzipped # Undefined
          /\ Includes(AcceptEncodingOf(request), Gzip)
    THEN Response(200, [AssetHeaders(asset) EXCEPT !.contentEncoding = Str("gzip")],
                  asset.gzipped)
  ELSE IF ENABLE_ETAGS /\ asset.etag # Undefined /\ request.ifNoneMatch = asset.etag
    THEN Response(304, NoHeaders, Null)
  ELSE IF asset.content # Null THEN Response(200, AssetHeaders(asset), asset.content)
  ELSE IF asset.path # Undefined
    THEN Response(200, AssetHeaders(asset), [file |-> asset.path.str])
  ELSE Null
serveAsset(request, route) ==
  LET asset == assets[route] IN
  IF asset = Undefined THEN Null
  ELSE IF ENABLE_ETAGS /\ asset.etag # Undefined /\ request.ifNoneMatch = asset.etag
    THEN Response(304, NoHeaders, Null)
  ELSE IF asset.content # Null
    THEN IF asset.gzipped # Undefined /\ Includes(AcceptEncodingOf(request), Gzip)
           THEN Response(200, [AssetHeaders(asset) EXCEPT !.contentEncoding = Str("gzip")],
                         asset.gzipped)
           ELSE Response(200, AssetHeaders(asset), asset.content)
  ELSE IF asset.path # Undefined
    THEN Response(200, AssetHeaders(asset), [file |-> asset.path.str])
  ELSE Null

(***************************************************************************)
(* The fetch handler of Bun.serve                                          *)
(***************************************************************************)
ShellResponse ==
  Response(200, [NoHeaders EXCEPT !.contentType = Str("text/html")],
           [html |-> indexHtml.str])

FetchHandlerNotFound(request) ==
  LET staticResponse == serveAsset(request, request.pathname) IN
  IF staticResponse # Null THEN staticResponse
  ELSE Response(404, NoHeaders, Null)
FetchHandler(request) ==
  LET staticResponse == serveAsset(request, request.pathname) IN
  IF staticResponse # Null THEN staticResponse ELSE ShellResponse

\* The pathnames clients ask for: every node's URL and two client-side routes.
Pathnames == Routes \cup {<<"/">>, <<"/", "blog">>}

\* If-None-Match values: none, the ETag of the file's current bytes (strong,
\* weak, another file's), and the wildcard.
IfNoneMatchValues(pathname) ==
  {Null, [star |-> TRUE], generateETag([data |-> "old", length |-> 1])}
  \cup UNION {{generateETag(ContentOf(n)), [generateETag(ContentOf(n)) EXCEPT !.weak = TRUE]}
               : n \in {m \in Nodes : RouteOf(JoinSegments(m, "/")) = pathname
                                      /\ disk[m].kind = "file"}}

AcceptEncodingValues ==
  {Null, Str(Gzip), Str(<<"b", "r">>), Str(<<"b", "r", ",", " ">> \o Gzip),
   Str(<<"G", "Z", "I", "P">>), Str(<<"g", "z", "i">>)}

Fetch ==
  /\ phase = "serving"
  /\ \E pathname \in Pathnames :
       \E inm \in IfNoneMatchValues(pathname) :
         \E ae \in AcceptEncodingValues :
           LET request == [pathname |-> pathname, ifNoneMatch |-> inm,
                           acceptEncoding |-> ae]
           IN  /\ lastReq' = request
               /\ lastResp' = FetchHandler(request)
  /\ UNCHANGED <<pathSep, disk, dirReadable, phase, todo, assets, indexHtml, exitCode>>
  /\ UNCHANGED <<clientVars, themeVars, modeVars, pageVars>>

ServerInit ==
  /\ pathSep \in {"/", "\\"}
  /\ dirReadable \in BOOLEAN
  /\ disk \in [Nodes -> [kind : {"file", "dir", "absent"}, size : Sizes]]
  /\ disk[DirNode] = [kind |-> "dir", size |-> 0]
  /\ disk[IndexNode].kind \in {"file", "absent"}
  /\ disk[IndexNode].size \in {0, GZIP_THRESHOLD + 1}
  /\ disk[IndexNode].kind = "absent" => disk[IndexNode].size = 0
  /\ disk[NestedNode].kind = "file"
  /\ disk[BlobNode].kind = "file"
  /\ phase = "init"
  /\ todo = <<>>
  /\ assets = [r \in Pathnames |-> Undefined]
  /\ indexHtml = Undefined
  /\ lastReq = Null
  /\ lastResp = Null
  /\ exitCode = Null

ServerNext == StartLoading \/ LoadAsset \/ ReadIndex \/ Fetch

\* The server before startServer runs.
ServerIdle ==
  /\ pathSep = "/"
  /\ dirReadable = TRUE
  /\ disk = [n \in Nodes |-> IF n = DirNode THEN [kind |-> "dir", size |-> 0]
                                            ELSE [kind |-> "file", size |-> 1]]
  /\ phase = "init"
  /\ todo = <<>>
  /\ assets = [r \in Pathnames |-> Undefined]
  /\ indexHtml = Undefined
  /\ lastReq = Null
  /\ lastResp = Null
  /\ exitCode = Null

(***************************************************************************)
(* lib/getCookie.ts                                                        *)
(***************************************************************************)
\* import.meta.env.VITE_PROJECT_NAME || 'django'
PROJECT_NAME ==
  IF projectEnv = Undefined \/ projectEnv = Str("") THEN "django" ELSE projectEnv.str

getCookieName(baseName) == <<PROJECT_NAME, "_", baseName>>

\* decodeURIComponent on the cookie values of the model
DecodeToken(t) == IF t = "%2F" THEN "/" ELSE t
decodeURIComponent(v) == [i \in 1..Len(v) |-> DecodeToken(v[i])]

\* getCookie: the first cookie of document.cookie that begins with name + '='
RECURSIVE getCookieFrom(_, _)
getCookieFrom(cookies, name) ==
  IF Len(cookies) = 0 THEN Null
  ELSE LET cookie == Head(cookies) IN
       IF Len(cookie) >= Len(name) + 1
          /\ SubSeq(cookie, 1, Len(name) + 1) = name \o <<"=">>
         THEN Str(decodeURIComponent(SubSeq(cookie, Len(name) + 2, Len(cookie))))
         ELSE getCookieFrom(Tail(cookies), name)

getCookie(jar, name) == getCookieFrom(jar, name)

getCSRFTokenOf(jar) == getCookie(jar, getCookieName("csrftoken"))
getCSRFToken == getCSRFTokenOf(cookieJar)

\* JavaScript truthiness of a string | null
Truthy(v) == v # Null /\ v # Undefined /\ v # Str(<<>>)

\* csrfToken || ''
OrEmpty(v) == IF Truthy(v) THEN v ELSE Str(<<>>)

\* The cookies a Django server of project `project` sets.
Cookie(project, baseName, value) == <<project, "_", baseName, "=">> \o value

\* The browser storing a Set-Cookie: replaces the cookie of that name.
SetCookie(jar, project, baseName, value) ==
  SelectSeq(jar, LAMBDA c : ~(Len(c) >= 4 /\ SubSeq(c, 1, 4) = <<project, "_", baseName, "=">>))
    \o <<Cookie(project, baseName, value)>>

\* The cookie GET /api/v1/csrf_token/ sets, when it sets one.
ServerProject == "django"
FreshToken == <<"tok1">>

\* The cookie jars a page starts with.
Jars ==
  {<<>>,
   <<Cookie("django", "sessionid", <<"s1">>), Cookie("django", "csrftoken", <<"tok1">>)>>,
   <<Cookie("myproj", "csrftoken", <<"a", "%2F", "b">>)>>,
   <<Cookie("django", "csrftoken", <<>>)>>}

(***************************************************************************)
(* hooks/useAuth.ts                                                        *)
(***************************************************************************)
\* The components that call useAuth(): the Header of every page, and the
\* page itself (Login, Logout, BlogList, BlogPost).
AuthInstances == {"Header", "Page"}

Users == {"alice"}
UserData(name) == [username |-> name]

\* JSON.stringify / JSON.parse on the values the client stores
JSONStringify(v) == [json |-> v]
JSONGarbage == [garbage |-> TRUE]
JSONParses(text) == text # JSONGarbage
JSONParse(text) == text.json

AuthState(user, isAuthenticated, isLoading) ==
  [user |-> user, isAuthenticated |-> isAuthenticated, isLoading |-> isLoading]

InitialAuthState == AuthState(Null, FALSE, TRUE)

\* updateAuthState: the state it sets, and what it leaves in localStorage
updateAuthStateResult(stored) ==
  IF stored # Null
    THEN IF JSONParses(stored)
           THEN AuthState(JSONParse(stored), TRUE, FALSE)
           ELSE AuthState(Null, FALSE, FALSE)
    ELSE AuthState(Null, FALSE, FALSE)

updateAuthStateStorage(stored) ==
  IF stored # Null /\ ~JSONParses(stored) THEN Null ELSE stored

\* window.dispatchEvent(new Event('authChange')): every registered listener
\* runs updateAuthState, synchronously.
DispatchAuthChange(authNow, stored) ==
  [i \in AuthInstances |->
     IF i \in listening THEN updateAuthStateResult(stored) ELSE authNow[i]]

updateUserStorage(userData) == JSONStringify(userData)

updateUserAuth(inst, userData) ==
  LET stored == updateUserStorage(userData)
      set == [auth EXCEPT ![inst] = AuthState(userData, TRUE, auth[inst].isLoading)]
  IN  DispatchAuthChange(set, stored)

updateUserStored(userData) == updateAuthStateStorage(updateUserStorage(userData))

\* useEffect of useAuth: the initial updateAuthState, then the listeners
MountAuth(inst) ==
  /\ inst \notin listening
  /\ auth' = [auth EXCEPT ![inst] = updateAuthStateResult(storedUser)]
  /\ storedUser' = updateAuthStateStorage(storedUser)
  /\ listening' = listening \cup {inst}
  /\ UNCHANGED <<projectEnv, cookieJar, lastSent, pageError, signupSuccess, lastAuthEvent>>
  /\ UNCHANGED <<serverVars, themeVars, modeVars, pageVars>>

\* Another tab writes localStorage 'user': the storage event reaches this tab
StoredValues == {Null, JSONGarbage} \cup {JSONStringify(UserData(u)) : u \in Users}

StorageEvent ==
  /\ \E v \in StoredValues :
       /\ v # storedUser
       /\ auth' = DispatchAuthChange(auth, v)
       /\ storedUser' = IF listening # {} THEN updateAuthStateStorage(v) ELSE v
  /\ lastAuthEvent' = "other tab"
  /\ UNCHANGED <<projectEnv, cookieJar, lastSent, pageError, signupSuccess, listening>>
  /\ UNCHANGED <<serverVars, themeVars, modeVars, pageVars>>

\* The page is loaded again: every component is created anew
Reload ==
  /\ listening # {}
  /\ auth' = [i \in AuthInstances |-> InitialAuthState]
  /\ listening' = {}
  /\ pageError' = Null
  /\ signupSuccess' = FALSE
  /\ UNCHANGED <<projectEnv, cookieJar, lastSent, storedUser, lastAuthEvent>>
  /\ UNCHANGED <<serverVars, themeVars, modeVars, pageVars>>

(***************************************************************************)
(* pages/auth: Login.handleSubmit, SignUp.handleSubmit,                    *)
(* Logout.handleLogout                                                     *)
(***************************************************************************)
AuthPages == {"login", "signup", "logout"}

SentRequest(op, method, token, jar) ==
  [op |-> op, method |-> method, xCsrfToken |-> token, cookie |-> jar]

\* What GET /api/v1/csrf_token/ does to the cookie jar.
CsrfGetOutcomes == {"throws", "no cookie", "sets cookie"}

PostOutcomes == {"throws", "403", "error", "ok success", "ok failure"}

AuthPageSubmit(page) ==
  /\ AuthInstances \subseteq listening
  /\ \E get \in CsrfGetOutcomes, post \in PostOutcomes, u \in Users :
       LET jar == IF get = "sets cookie"
                    THEN SetCookie(cookieJar, ServerProject, "csrftoken", FreshToken)
                    ELSE cookieJar
           csrfToken == getCSRFTokenOf(jar)
       IN
       /\ cookieJar' = jar
       /\ IF page = "logout" /\ get = "throws"
            THEN /\ pageError' = Str("An unexpected error occurred. Please try again.")
                 /\ UNCHANGED <<lastSent, signupSuccess, storedUser, auth, lastAuthEvent>>
          ELSE IF ~Truthy(csrfToken)
            THEN /\ pageError' = Str("CSRF token not found. Please refresh and try again.")
                 /\ UNCHANGED <<lastSent, signupSuccess, storedUser, auth, lastAuthEvent>>
          ELSE
            /\ lastSent' = SentRequest(page, "POST", csrfToken, jar)
            /\ IF post = "ok success"
                 THEN CASE page = "login" ->
                             /\ auth' = updateUserAuth("Page", UserData(u))
                             /\ storedUser' = updateUserStored(UserData(u))
                             /\ lastAuthEvent' = "login ok"
                             /\ pageError' = Null
                             /\ UNCHANGED signupSuccess
                        [] page = "logout" ->
                             /\ auth' = updateUserAuth("Page", Null)
                             /\ storedUser' = updateUserStored(Null)
                             /\ lastAuthEvent' = "logout ok"
                             /\ pageError' = Null
                             /\ UNCHANGED signupSuccess
                        [] page = "signup" ->
                             /\ signupSuccess' = TRUE
                             /\ lastAuthEvent' = "signup ok"
                             /\ pageError' = Null
                             /\ UNCHANGED <<storedUser, auth>>
                 ELSE /\ pageError' =
                           CASE post = "throws" -> Str("An unexpected error occurred. Please try again.")
                             [] post = "403" /\ page # "logout" ->
                                  Str("CSRF verification failed. Please refresh the page and try again.")
                             [] OTHER -> Str("failed")
                      /\ UNCHANGED <<signupSuccess, storedUser, auth, lastAuthEvent>>
  /\ UNCHANGED <<projectEnv, listening>>
  /\ UNCHANGED <<serverVars, themeVars, modeVars, pageVars>>

(***************************************************************************)
(* api/blog.ts and api/themes.ts: the state-changing calls                 *)
(***************************************************************************)
getAuthHeaders == OrEmpty(getCSRFToken)

BlogOps ==
  {[op |-> "createPost", method |-> "POST"], [op |-> "updatePost", method |-> "PATCH"],
   [op |-> "deletePost", method |-> "DELETE"], [op |-> "uploadBlogImage", method |-> "POST"],
   [op |-> "createCategory", method |-> "POST"], [op |-> "updateCategory", method |-> "PATCH"],
   [op |-> "deleteCategory", method |-> "DELETE"], [op |-> "createTag", method |-> "POST"],
   [op |-> "updateTag", method |-> "PATCH"], [op |-> "deleteTag", method |-> "DELETE"]}

BlogApiCall ==
  /\ \E o \in BlogOps : lastSent' = SentRequest(o.op, o.method, getAuthHeaders, cookieJar)
  /\ UNCHANGED <<projectEnv, cookieJar, pageError, signupSuccess, storedUser, auth,
                 listening, lastAuthEvent>>
  /\ UNCHANGED <<serverVars, themeVars, modeVars, pageVars>>

\* incrementViewCount: fetch(url, {method: 'POST'}), no headers
incrementViewCount ==
  /\ lastSent' = SentRequest("incrementViewCount", "POST", Undefined, cookieJar)
  /\ UNCHANGED <<projectEnv, cookieJar, pageError, signupSuccess, storedUser, auth,
                 listening, lastAuthEvent>>
  /\ UNCHANGED <<serverVars, themeVars, modeVars, pageVars>>

\* makeAuthenticatedRequest, and deleteTheme's own fetch
makeAuthenticatedRequestToken == OrEmpty(getCSRFToken)

ThemeOps ==
  {[op |-> "setCurrentTheme", method |-> "POST"], [op |-> "createTheme", method |-> "POST"],
   [op |-> "generateTheme", method |-> "POST"], [op |-> "duplicateTheme", method |-> "POST"],
   [op |-> "updateTheme", method |-> "PUT"], [op |-> "deleteTheme", method |-> "DELETE"]}

ThemeApiCall ==
  /\ \E o \in ThemeOps :
       lastSent' = SentRequest(o.op, o.method, makeAuthenticatedRequestToken, cookieJar)
  /\ UNCHANGED <<projectEnv, cookieJar, pageError, signupSuccess, storedUser, auth,
                 listening, lastAuthEvent>>
  /\ UNCHANGED <<serverVars, themeVars, modeVars, pageVars>>

\* The server or the user changes the cookies between two calls.
CookieChange ==
  /\ \E jar \in Jars : jar # cookieJar /\ cookieJar' = jar
  /\ UNCHANGED <<projectEnv, lastSent, pageError, signupSuccess, storedUser, auth,
                 listening, lastAuthEvent>>
  /\ UNCHANGED <<serverVars, themeVars, modeVars, pageVars>>

ClientIdle ==
  /\ projectEnv = Undefined
  /\ cookieJar = <<>>
  /\ lastSent = Null
  /\ pageError = Null
  /\ signupSuccess = FALSE
  /\ storedUser = Null
  /\ auth = [i \in AuthInstances |-> InitialAuthState]
  /\ listening = {}
  /\ lastAuthEvent = "none"

\* A tab opening the site: some cookies, perhaps a user stored by an earlier visit.
ClientInit ==
  /\ projectEnv \in {Undefined, Str(""), Str("myproj")}
  /\ cookieJar \in Jars
  /\ lastSent = Null
  /\ pageError = Null
  /\ signupSuccess = FALSE
  /\ storedUser \in StoredValues
  /\ auth = [i \in AuthInstances |-> InitialAuthState]
  /\ listening = {}
  /\ lastAuthEvent = "none"

(***************************************************************************)
(* hooks/useDynamicFonts.ts: what initializeFontPreloading decides         *)
(***************************************************************************)
\* A font variable's value is a list of families: "Inter, sans-serif".
normalizeFontName(fontName) ==
  CASE fontName = "Inter" -> "inter"
    [] fontName = "Open Sans" -> "open-sans"
    [] fontName = "Fira Code" -> "fira-code"
    [] fontName = "Georgia" -> "georgia"
    [] OTHER -> fontName

isWebFont(fontName) ==
  fontName \notin {"serif", "sans-serif", "monospace", "system-ui", "Georgia"}

\* key.startsWith('font-')
IsFontKey(key) == key \in {"font-sans", "font-serif", "font-mono"}

getThemeFonts(fontVariables) ==
  {fontVariables[k][1] : k \in {key \in DOMAIN fontVariables :
                                  /\ IsFontKey(key)
                                  /\ Len(fontVariables[key]) > 0
                                  /\ isWebFont(fontVariables[key][1])}}

\* initializeFontPreloading: preloadFont marks every web font of the theme
initializeFontPreloading(fontVariables) ==
  preloadedFonts \cup {normalizeFontName(f) : f \in getThemeFonts(fontVariables)}

(***************************************************************************)
(* hooks/useTheme.ts: the themes                                           *)
(***************************************************************************)
Oklch(v) == <<"oklch(", v, ")">>

ThemeData(name, displayName, cssVars, version) ==
  [name |-> name, display_name |-> displayName, css_vars |-> cssVars, version |-> version]

getFallbackTheme ==
  ThemeData("fallback", "Fallback Theme",
    [theme |-> ("font-sans" :> <<"system-ui", "sans-serif">>) @@
               ("font-serif" :> <<"Georgia", "serif">>) @@
               ("font-mono" :> <<"monospace">>) @@
               ("radius" :> <<"0.375rem">>),
     light |-> ("background" :> Oklch("1.0000 0 0")) @@ ("foreground" :> Oklch("0.15 0 0")),
     dark |-> ("background" :> Oklch("0.0902 0 0")) @@
              ("foreground" :> Oklch("0.9216 0.0266 264.5312"))],
    Undefined)

\* The theme JSON files under /static/themes/
FrontendThemeNames == {"vercel", "nature", "cyberpunk"}

ThemeJson(name) ==
  [theme_name |-> name, display_name |-> name,
   cssVars |-> [theme |-> ("font-sans" :> <<"Inter", "sans-serif">>) @@
                          ("radius" :> <<"0.5rem">>),
                light |-> ("background" :> Oklch("1 0 0")) @@ ("primary" :> <<"#000000">>),
                dark |-> ("background" :> Oklch("0 0 0")) @@ ("primary" :> <<"#ffffff">>)]]

\* The theme object built from a theme JSON
ThemeFromJson(themeJson) ==
  ThemeData(themeJson.theme_name, themeJson.display_name,
            [theme |-> themeJson.cssVars.theme, light |-> themeJson.cssVars.light,
             dark |-> themeJson.cssVars.dark],
            Undefined)

\* The theme the backend holds as current
ApiTheme ==
  [id |-> 7, name |-> "ocean", display_name |-> "Ocean", description |-> "from the database",
   css_vars |-> [theme |-> ("font-sans" :> <<"Open Sans", "sans-serif">>) @@
                           ("font-mono" :> <<"monospace">>),
                 light |-> ("background" :> Oklch("0.98 0.01 240")),
                 dark |-> ("background" :> Oklch("0.2 0.02 240"))],
   is_system_theme |-> FALSE, version |-> "2.0.0"]

apiThemeToThemeData(apiTheme) ==
  ThemeData(apiTheme.name, apiTheme.display_name, apiTheme.css_vars, apiTheme.version)

\* processColorValue: the inside of oklch(...), or the value as it is
processColorValue(value) ==
  IF Len(value) = 3 /\ value[1] = "oklch(" /\ value[3] = ")" THEN <<value[2]>> ELSE value

\* applyThemeToDOM: inline variables on the root, and the :root / .dark rules
applyThemeToDOM(theme) ==
  [inline |-> theme.css_vars.theme,
   rootRule |-> [p \in DOMAIN theme.css_vars.light |-> processColorValue(theme.css_vars.light[p])],
   darkRule |-> [p \in DOMAIN theme.css_vars.dark |-> processColorValue(theme.css_vars.dark[p])]]

(***************************************************************************)
(* hooks/useTheme.ts: loadAndApplyTheme, one action per await              *)
(***************************************************************************)
useBackendThemesUnlessFalse == envUseBackend # Str("false")
useBackendThemes == envUseBackend = Str("true")

\* import.meta.env.VITE_FRONTEND_THEME || 'vercel'
OrVercel(v) == IF v = Undefined \/ v = Str("") THEN "vercel" ELSE v.str

BackendUrl == <<"/api/v1", "/themes/current/">>
StaticThemeUrl(name) == <<"/static/themes/", name, ".json">>

ThemeRequest(url, outcome) == [url |-> url, outcome |-> outcome]

\* What themeApi.getCurrentTheme() can end in: a rejected fetch, a non-ok
\* status, a body that is no JSON, a JSON object without css_vars, the
\* current theme, or the instruction to fall back to a frontend theme.
BackendFailures == {"network error", "http error", "not json", "no css_vars"}
BackendFallbacks ==
  {[fallback |-> TRUE, theme_name |-> n] : n \in {Undefined, Str("cyberpunk")}}
BackendOutcomes ==
  {Str(f) : f \in BackendFailures} \cup {Str("theme")} \cup BackendFallbacks

\* What fetching a theme JSON can end in.
JsonFailures == {"network error", "http error", "not json", "no cssVars"}
JsonOutcomes == {Str(f) : f \in JsonFailures} \cup {Str("ok")}

Pending == Str("pending")

IssueRequest(url) == Append(themeRequests, ThemeRequest(url, Pending))
SettleRequest(outcome) ==
  [themeRequests EXCEPT ![Len(themeRequests)].outcome = outcome]

AwaitJson(stage, name) == [await |-> "json", stage |-> stage, name |-> name]
AwaitFonts(theme, error) == [await |-> "fonts", theme |-> theme, error |-> error]

\* The message set after a theme JSON has loaded.
ErrorAfterJsonNone(stage, name) == Null
ErrorAfterJson(stage, name) ==
  IF stage = "backend catch"
    THEN Str(<<"Backend themes unavailable, using ", name, " theme">>)
    ELSE Null

\* The start of the effect, once the hook is rendered, up to the first await.
LoadStart ==
  /\ themeMounted # {}
  /\ themePc = "idle"
  /\ themeIsLoading' = TRUE
  /\ themeError' = Null
  /\ IF ~useBackendThemes
       THEN /\ themePc' = "await json"
            /\ themeNext' = AwaitJson("frontend mode", OrVercel(envFrontendTheme))
            /\ themeRequests' = IssueRequest(StaticThemeUrl(OrVercel(envFrontendTheme)))
       ELSE /\ themePc' = "await backend"
            /\ themeNext' = Null
            /\ themeRequests' = IssueRequest(BackendUrl)
  /\ UNCHANGED <<envUseBackend, envFrontendTheme, themeSettings, domTheme, preloadedFonts>>
  /\ UNCHANGED <<serverVars, clientVars, modeVars, pageVars>>

\* themeApi.getCurrentTheme() settles.
BackendResponds ==
  /\ themePc = "await backend"
  /\ \E outcome \in BackendOutcomes :
       /\ themeRequests' = IF outcome \in BackendFallbacks
                             THEN Append(SettleRequest(outcome),
                                         ThemeRequest(StaticThemeUrl(OrVercel(outcome.theme_name)),
                                                      Pending))
                           ELSE IF outcome = Str("theme")
                             THEN SettleRequest(outcome)
                           ELSE Append(SettleRequest(outcome),
                                       ThemeRequest(StaticThemeUrl(OrVercel(envFrontendTheme)),
                                                    Pending))
       /\ IF outcome \in BackendFallbacks
            THEN /\ themePc' = "await json"
                 /\ themeNext' = AwaitJson("instructed", OrVercel(outcome.theme_name))
                 /\ UNCHANGED preloadedFonts
          ELSE IF outcome = Str("theme")
            THEN /\ themePc' = "await fonts"
                 /\ themeNext' = AwaitFonts(apiThemeToThemeData(ApiTheme), Null)
                 /\ preloadedFonts' = initializeFontPreloading(ApiTheme.css_vars.theme)
          ELSE /\ themePc' = "await json"
               /\ themeNext' = AwaitJson("backend catch", OrVercel(envFrontendTheme))
               /\ UNCHANGED preloadedFonts
  /\ UNCHANGED <<envUseBackend, envFrontendTheme, themeSettings, themeIsLoading, themeError,
                 domTheme>>
  /\ UNCHANGED <<serverVars, clientVars, modeVars, pageVars>>

\* fetch(`/static/themes/${frontendTheme}.json`) and response.json() settle.
JsonResponds ==
  /\ themePc = "await json"
  /\ \E outcome \in JsonOutcomes :
       LET stage == themeNext.stage
           name == themeNext.name
       IN
       IF outcome = Str("ok")
         THEN /\ themeRequests' = SettleRequest(outcome)
              /\ themePc' = "await fonts"
              /\ themeNext' = AwaitFonts(ThemeFromJson(ThemeJson(name)),
                                         ErrorAfterJson(stage, name))
              /\ preloadedFonts' = initializeFontPreloading(ThemeJson(name).cssVars.theme)
       ELSE IF stage = "instructed"
         THEN /\ themeRequests' =
                   Append(SettleRequest(outcome),
                          ThemeRequest(StaticThemeUrl(OrVercel(envFrontendTheme)), Pending))
              /\ themePc' = "await json"
              /\ themeNext' = AwaitJson("backend catch", OrVercel(envFrontendTheme))
              /\ UNCHANGED preloadedFonts
       ELSE /\ themeRequests' = SettleRequest(outcome)
            /\ themePc' = "await fonts"
            /\ themeNext' =
                 AwaitFonts(getFallbackTheme,
                            IF stage = "frontend mode"
                              THEN Str(<<"Failed to load frontend theme, using fallback">>)
                              ELSE Str(<<"Failed to load all themes, using hardcoded fallback">>))
            /\ preloadedFonts' = initializeFontPreloading(getFallbackTheme.css_vars.theme)
  /\ UNCHANGED <<envUseBackend, envFrontendTheme, themeSettings, themeIsLoading, themeError,
                 domTheme>>
  /\ UNCHANGED <<serverVars, clientVars, modeVars, pageVars>>

\* After `await initializeFontPreloading(...)`: applyThemeToDOM,
\* setThemeSettings, setError, and the finally block.
ApplyLoadedTheme ==
  /\ themePc = "await fonts"
  /\ domTheme' = applyThemeToDOM(themeNext.theme)
  /\ themeSettings' = themeNext.theme
  /\ themeError' = themeNext.error
  /\ themeIsLoading' = FALSE
  /\ themePc' = "done"
  /\ themeNext' = Null
  /\ UNCHANGED <<envUseBackend, envFrontendTheme, themeRequests, preloadedFonts>>
  /\ UNCHANGED <<serverVars, clientVars, modeVars, pageVars>>

(***************************************************************************)
(* hooks/useTheme.ts: refreshTheme and switchTheme, one action per await   *)
(***************************************************************************)
\* What property access gives on a body that is no theme: a fallback
\* instruction, or an object without css_vars.
BodyWithoutTheme ==
  [name |-> Undefined, display_name |-> Undefined, css_vars |-> Undefined,
   version |-> Undefined]

ThemeSettled == themePc \in {"done", "refreshed"}

\* refreshTheme(), up to `await themeApi.getCurrentTheme()`
RefreshStart ==
  /\ ThemeSettled
  /\ themeIsLoading' = TRUE
  /\ themePc' = "refresh await backend"
  /\ UNCHANGED <<envUseBackend, envFrontendTheme, themeNext, themeRequests, themeSettings,
                 themeError, domTheme, preloadedFonts>>
  /\ UNCHANGED <<serverVars, clientVars, modeVars, pageVars>>

\* refreshTheme after getCurrentTheme settles: setThemeSettings(theme), then
\* `await initializeFontPreloading(theme.css_vars.theme)`.
RefreshResponds ==
  /\ themePc = "refresh await backend"
  /\ \E outcome \in BackendOutcomes :
       IF outcome \in {Str("network error"), Str("http error"), Str("not json")}
         THEN /\ themeError' = Str(<<"Failed to refresh theme">>)
              /\ themeIsLoading' = FALSE
              /\ themePc' = "refreshed"
              /\ UNCHANGED <<themeSettings, preloadedFonts>>
       ELSE IF outcome = Str("theme")
         THEN /\ themeSettings' = apiThemeToThemeData(ApiTheme)
              /\ preloadedFonts' = initializeFontPreloading(ApiTheme.css_vars.theme)
              /\ themePc' = "refresh await fonts"
              /\ UNCHANGED <<themeError, themeIsLoading>>
       ELSE /\ themeSettings' = apiThemeToThemeData(BodyWithoutTheme)
            /\ themeError' = Str(<<"Failed to refresh theme">>)
            /\ themeIsLoading' = FALSE
            /\ themePc' = "refreshed"
            /\ UNCHANGED preloadedFonts
  /\ UNCHANGED <<envUseBackend, envFrontendTheme, themeNext, themeRequests, domTheme>>
  /\ UNCHANGED <<serverVars, clientVars, modeVars, pageVars>>

\* refreshTheme after the await: applyThemeToDOM, setError(null), finally.
RefreshApply ==
  /\ themePc = "refresh await fonts"
  /\ domTheme' = applyThemeToDOM(themeSettings)
  /\ themeError' = Null
  /\ themeIsLoading' = FALSE
  /\ themePc' = "refreshed"
  /\ UNCHANGED <<envUseBackend, envFrontendTheme, themeNext, themeRequests, themeSettings,
                 preloadedFonts>>
  /\ UNCHANGED <<serverVars, clientVars, modeVars, pageVars>>

\* switchTheme(themeName), up to `await themeApi.setCurrentTheme(themeName)`
SwitchStart ==
  /\ ThemeSettled
  /\ themeIsLoading' = TRUE
  /\ themePc' = "switch await post"
  /\ lastSent' = SentRequest("setCurrentTheme", "POST", makeAuthenticatedRequestToken,
                             cookieJar)
  /\ UNCHANGED <<envUseBackend, envFrontendTheme, themeNext, themeRequests, themeSettings,
                 themeError, domTheme, preloadedFonts>>
  /\ UNCHANGED <<projectEnv, cookieJar, pageError, signupSuccess, storedUser, auth,
                 listening, lastAuthEvent>>
  /\ UNCHANGED <<serverVars, modeVars, pageVars>>

\* switchTheme after setCurrentTheme settles: refreshTheme() or the catch.
SwitchResponds ==
  /\ themePc = "switch await post"
  /\ \E ok \in BOOLEAN :
       IF ok
         THEN /\ themePc' = "refresh await backend"
              /\ UNCHANGED <<themeError, themeIsLoading>>
         ELSE /\ themeError' = Str(<<"Failed to switch theme">>)
              /\ themeIsLoading' = FALSE
              /\ themePc' = "refreshed"
  /\ UNCHANGED <<envUseBackend, envFrontendTheme, themeNext, themeRequests, themeSettings,
                 domTheme, preloadedFonts>>
  /\ UNCHANGED <<serverVars, clientVars, modeVars, pageVars>>

\* useTheme before its effect has run.
ThemeIdle ==
  /\ envUseBackend = Undefined
  /\ envFrontendTheme = Undefined
  /\ themePc = "idle"
  /\ themeNext = Null
  /\ themeRequests = <<>>
  /\ themeSettings = Null
  /\ themeIsLoading = TRUE
  /\ themeError = Null
  /\ domTheme = Null
  /\ preloadedFonts = {}

ThemeInit ==
  /\ envUseBackend \in {Undefined, Str("true"), Str("false"), Str("TRUE")}
  /\ envFrontendTheme \in {Undefined, Str("nature")}
  /\ themePc = "idle"
  /\ themeNext = Null
  /\ themeRequests = <<>>
  /\ themeSettings = Null
  /\ themeIsLoading = TRUE
  /\ themeError = Null
  /\ domTheme = Null
  /\ preloadedFonts = {}

(***************************************************************************)
(* hooks/useTheme.ts: light and dark mode                                  *)
(***************************************************************************)
\* RootDocument and the ThemeToggle in its Header both call useTheme; they
\* are rendered in the same pass.  Only ThemeToggle reads lightMode and
\* calls toggleLightMode.
ThemeInstances == {"RootDocument", "ThemeToggle"}

MaxToggles == 3

ModeName(light) == Str(IF light THEN "light" ELSE "dark")

\* The useState initializer of lightMode.
InitialLightModeSystemFirst(stored, dark) ==
  IF dark THEN FALSE ELSE IF stored # Null /\ stored # Str("") THEN stored = Str("light") ELSE TRUE
InitialLightMode(stored, dark) ==
  IF stored # Null /\ stored # Str("") THEN stored = Str("light") ELSE ~dark

\* The page is rendered: every instance initialises its state and schedules
\* its effects.
RenderApp ==
  /\ themeMounted = {}
  /\ themeMounted' = ThemeInstances
  /\ lightMode' = [i \in ThemeInstances |-> InitialLightMode(storedMode, prefersDark)]
  /\ modePending' = ThemeInstances
  /\ UNCHANGED <<storedMode, prefersDark, rootDark, toggleCount, modeSettled>>
  /\ UNCHANGED <<serverVars, clientVars, themeVars, pageVars>>

\* useEffect(..., [lightMode])
ModeEffect(i) ==
  /\ i \in modePending
  /\ rootDark' = ~lightMode[i]
  /\ storedMode' = ModeName(lightMode[i])
  /\ modePending' = modePending \ {i}
  /\ modeSettled' = IF modePending' = {} /\ toggleCount = 0
                      THEN [dark |-> rootDark', stored |-> storedMode']
                      ELSE modeSettled
  /\ UNCHANGED <<prefersDark, themeMounted, lightMode, toggleCount>>
  /\ UNCHANGED <<serverVars, clientVars, themeVars, pageVars>>

\* A click on the ThemeToggle button; effects of earlier renders have run.
toggleLightMode ==
  /\ "ThemeToggle" \in themeMounted
  /\ modePending = {}
  /\ toggleCount < MaxToggles
  /\ lightMode' = [lightMode EXCEPT !["ThemeToggle"] = ~lightMode["ThemeToggle"]]
  /\ modePending' = {"ThemeToggle"}
  /\ toggleCount' = toggleCount + 1
  /\ UNCHANGED <<storedMode, prefersDark, rootDark, themeMounted, modeSettled>>
  /\ UNCHANGED <<serverVars, clientVars, themeVars, pageVars>>

\* The system colour scheme changes; the hook does not listen to it.
SystemPreferenceChange ==
  /\ prefersDark' = ~prefersDark
  /\ UNCHANGED <<storedMode, rootDark, themeMounted, lightMode, modePending, toggleCount,
                 modeSettled>>
  /\ UNCHANGED <<serverVars, clientVars, themeVars, pageVars>>

\* The page is loaded again: a new document and new module state, the same
\* localStorage and build.
ReloadDocument ==
  /\ themeMounted # {}
  /\ themeMounted' = {}
  /\ lightMode' = [i \in ThemeInstances |-> TRUE]
  /\ modePending' = {}
  /\ rootDark' = FALSE
  /\ toggleCount' = 0
  /\ modeSettled' = Null
  /\ themePc' = "idle"
  /\ themeNext' = Null
  /\ themeRequests' = <<>>
  /\ themeSettings' = Null
  /\ themeIsLoading' = TRUE
  /\ themeError' = Null
  /\ domTheme' = Null
  /\ preloadedFonts' = {}
  /\ UNCHANGED <<storedMode, prefersDark, envUseBackend, envFrontendTheme>>
  /\ UNCHANGED <<serverVars, clientVars, pageVars>>

ModeIdle ==
  /\ storedMode = Null
  /\ prefersDark = FALSE
  /\ rootDark = FALSE
  /\ themeMounted = {}
  /\ lightMode = [i \in ThemeInstances |-> TRUE]
  /\ modePending = {}
  /\ toggleCount = 0
  /\ modeSettled = Null

ModeInit ==
  /\ storedMode \in {Null, Str("light"), Str("dark")}
  /\ prefersDark \in BOOLEAN
  /\ rootDark = FALSE
  /\ themeMounted = {}
  /\ lightMode = [i \in ThemeInstances |-> TRUE]
  /\ modePending = {}
  /\ toggleCount = 0
  /\ modeSettled = Null

(***************************************************************************)
(* pages/blog/BlogEditor.tsx: state, effects                               *)
(***************************************************************************)
Statuses == {"draft", "scheduled", "published"}
Titles == {"", " ", "T1"}
Contents == {"", "c1"}
Excerpts == {"", "e1"}
IdLists == {<<>>, <<1>>}
ImageTargets == {"featured", "og"}

\* A File object chosen in the file input; URLs of the media library, of the
\* FileReader preview and of the server's answer.
NewFile == [file |-> "photo.png"]
LibraryUrl == Str("/media/library.png")
DataUrl == Str("data:image/png")
ServerUrl == Str("/media/saved.png")

Image(file, preview) == [file |-> file, preview |-> preview]
NoImage == Image(Null, Null)

\* The posts the edit route's loader can hand to the editor.
InitialPosts ==
  {[status |-> st, title |-> "T1", content |-> "c1", excerpt |-> "",
    categories |-> <<>>, tags |-> <<>>,
    featured_image_url |-> f, og_image_url |-> Null]
     : st \in Statuses, f \in {Null, ServerUrl}}

\* title.trim()
Trim(title) == IF title = " " THEN "" ELSE title

AUTO_SAVE_DELAY == 60000
TickMs == 30000

\* What handleSave reads besides the dependencies of the auto-save effect.
SaveClosure(status, images) == [status |-> status, images |-> images]

\* The auto-save effect: if (!isDirty || !slug) return; setTimeout(...)
ShouldAutoSaveAnyPost(isDirty, slug) == isDirty
ShouldAutoSave(isDirty, slug) == isDirty /\ slug # Undefined

AutoSaveTimer(isDirty, slug, closure) ==
  IF ShouldAutoSave(isDirty, slug) THEN [elapsed |-> 0, closure |-> closure] ELSE Null

\* The dirty effect, run when one of its dependencies changed.
DirtyAfter(changed, dirty, title, content, excerpt) ==
  IF changed /\ (title # "" \/ content # "" \/ excerpt # "") THEN TRUE ELSE dirty

\* The auto-save effect, run when one of its dependencies changed: the
\* cleanup clears the timer, the body may set a new one.
TimerAfter(depChanged, dirtyBefore, dirtyAfter, slug, closure) ==
  IF depChanged \/ dirtyAfter # dirtyBefore
    THEN AutoSaveTimer(dirtyAfter, slug, closure)
    ELSE edTimer

(***************************************************************************)
(* pages/blog/BlogEditor.tsx: mounting and editing                         *)
(***************************************************************************)
PostSlug == Str("my-post")

\* The state of an editor rendered for `post` under `slug`, its effects run.
EditorRendered(slug, post) ==
  LET images == [t \in ImageTargets |->
                   Image(Null, IF t = "featured" THEN post.featured_image_url
                                                 ELSE post.og_image_url)]
      dirty == DirtyAfter(TRUE, FALSE, post.title, post.content, post.excerpt)
  IN
  /\ edMounted' = TRUE
  /\ edSlug' = slug
  /\ edInitialStatus' = post.initialStatus
  /\ edTitle' = post.title
  /\ edContent' = post.content
  /\ edExcerpt' = post.excerpt
  /\ edCategories' = post.categories
  /\ edTags' = post.tags
  /\ edStatus' = post.status
  /\ edSavedStatus' = post.status
  /\ edImages' = images
  /\ edIsDirty' = dirty
  /\ edIsSaving' = FALSE
  /\ edTimer' = AutoSaveTimer(dirty, slug, SaveClosure(post.status, images))
  /\ edInFlight' = Null
  /\ edEverPublished' = (post.status = "published")

\* /blog/new: no slug, no initialData, every field at its default.
NewPost ==
  [initialStatus |-> Undefined, status |-> "draft", title |-> "", content |-> "",
   excerpt |-> "", categories |-> <<>>, tags |-> <<>>,
   featured_image_url |-> Null, og_image_url |-> Null]

\* /blog/edit/$slug: the loader's post as initialData.
LoadedPost(post) ==
  [initialStatus |-> Str(post.status), status |-> post.status, title |-> post.title,
   content |-> post.content, excerpt |-> post.excerpt, categories |-> post.categories,
   tags |-> post.tags, featured_image_url |-> post.featured_image_url,
   og_image_url |-> post.og_image_url]

EditorMount ==
  /\ ~edMounted
  /\ \/ EditorRendered(Undefined, NewPost)
     \/ \E post \in InitialPosts : EditorRendered(PostSlug, LoadedPost(post))
  /\ UNCHANGED <<edSent, edLastSave>>
  /\ UNCHANGED <<serverVars, clientVars, themeVars, modeVars, fontVars, seoVars>>

\* One of the five fields the auto-save effect depends on changes.
EditField(title, content, excerpt, categories, tags) ==
  LET dirty == DirtyAfter(TRUE, edIsDirty, title, content, excerpt) IN
  /\ edMounted
  /\ edTitle' = title
  /\ edContent' = content
  /\ edExcerpt' = excerpt
  /\ edCategories' = categories
  /\ edTags' = tags
  /\ edIsDirty' = dirty
  /\ edTimer' = TimerAfter(TRUE, edIsDirty, dirty, edSlug, SaveClosure(edStatus, edImages))
  /\ UNCHANGED <<edMounted, edSlug, edInitialStatus, edStatus, edSavedStatus, edImages,
                 edIsSaving, edInFlight, edSent, edLastSave, edEverPublished>>
  /\ UNCHANGED <<serverVars, clientVars, themeVars, modeVars, fontVars, seoVars>>

SetTitle ==
  \E t \in Titles \ {edTitle} : EditField(t, edContent, edExcerpt, edCategories, edTags)
SetContent ==
  \E c \in Contents \ {edContent} : EditField(edTitle, c, edExcerpt, edCategories, edTags)
SetExcerpt ==
  \E e \in Excerpts \ {edExcerpt} : EditField(edTitle, edContent, e, edCategories, edTags)
SetSelectedCategories ==
  \E l \in IdLists \ {edCategories} : EditField(edTitle, edContent, edExcerpt, l, edTags)
SetSelectedTags ==
  \E l \in IdLists \ {edTags} : EditField(edTitle, edContent, edExcerpt, edCategories, l)

\* The status dropdown: a dependency of the dirty effect only.
SetStatus ==
  /\ edMounted
  /\ \E st \in Statuses \ {edStatus} :
       LET dirty == DirtyAfter(TRUE, edIsDirty, edTitle, edContent, edExcerpt) IN
       /\ edStatus' = st
       /\ edIsDirty' = dirty
       /\ edTimer' = TimerAfter(FALSE, edIsDirty, dirty, edSlug, SaveClosure(st, edImages))
  /\ UNCHANGED <<edMounted, edSlug, edInitialStatus, edTitle, edContent, edExcerpt,
                 edCategories, edTags, edSavedStatus, edImages, edIsSaving, edInFlight,
                 edSent, edLastSave, edEverPublished>>
  /\ UNCHANGED <<serverVars, clientVars, themeVars, modeVars, fontVars, seoVars>>

\* An image handler: set the image of `target`, then setIsDirty(true).
SetImage(target, image) ==
  LET images == [edImages EXCEPT ![target] = image] IN
  /\ edMounted
  /\ edImages' = images
  /\ edIsDirty' = TRUE
  /\ edTimer' = TimerAfter(FALSE, edIsDirty, TRUE, edSlug, SaveClosure(edStatus, images))
  /\ UNCHANGED <<edMounted, edSlug, edInitialStatus, edTitle, edContent, edExcerpt,
                 edCategories, edTags, edStatus, edSavedStatus, edIsSaving, edInFlight,
                 edSent, edLastSave, edEverPublished>>
  /\ UNCHANGED <<serverVars, clientVars, themeVars, modeVars, fontVars, seoVars>>

\* handleFeaturedImageChange / handleOgImageChange, the FileReader done
handleImageChange == \E t \in ImageTargets : SetImage(t, Image(NewFile, DataUrl))
\* handleRemoveFeaturedImage / handleRemoveOgImage
handleRemoveImage ==
  \E t \in ImageTargets : edImages[t] # NoImage /\ SetImage(t, NoImage)
\* handleSelectFromLibrary, then handleImageFromLibrary
handleImageFromLibrary == \E t \in ImageTargets : SetImage(t, Image(Null, LibraryUrl))

\* The user leaves the editor: the effects' cleanups run.
EditorUnmount ==
  /\ edMounted
  /\ edMounted' = FALSE
  /\ edSlug' = Undefined
  /\ edInitialStatus' = Undefined
  /\ edTitle' = ""
  /\ edContent' = ""
  /\ edExcerpt' = ""
  /\ edCategories' = <<>>
  /\ edTags' = <<>>
  /\ edStatus' = "draft"
  /\ edSavedStatus' = "draft"
  /\ edImages' = [t \in ImageTargets |-> NoImage]
  /\ edIsDirty' = FALSE
  /\ edIsSaving' = FALSE
  /\ edTimer' = Null
  /\ edInFlight' = Null
  /\ edEverPublished' = FALSE
  /\ edSent' = Null
  /\ edLastSave' = Null
  /\ UNCHANGED <<serverVars, clientVars, themeVars, modeVars, fontVars, seoVars>>

EditorIdle ==
  /\ edMounted = FALSE
  /\ edSlug = Undefined
  /\ edInitialStatus = Undefined
  /\ edTitle = ""
  /\ edContent = ""
  /\ edExcerpt = ""
  /\ edCategories = <<>>
  /\ edTags = <<>>
  /\ edStatus = "draft"
  /\ edSavedStatus = "draft"
  /\ edImages = [t \in ImageTargets |-> NoImage]
  /\ edIsDirty = FALSE
  /\ edIsSaving = FALSE
  /\ edTimer = Null
  /\ edInFlight = Null
  /\ edSent = Null
  /\ edLastSave = Null
  /\ edEverPublished = FALSE

(***************************************************************************)
(* pages/blog/BlogEditor.tsx handleSave; api/blog.ts createPost/updatePost *)
(***************************************************************************)
\* postData.featured_image / postData.og_image
ImageField(image) ==
  IF image.file # Null THEN image.file
  ELSE IF image.preview # Null THEN image.preview
  ELSE Undefined

PostData(title, content, excerpt, categories, tags, status, images) ==
  [title |-> Trim(title), content |-> content, excerpt |-> excerpt,
   category_ids |-> categories, tag_ids |-> tags, status |-> status,
   featured_image |-> ImageField(images["featured"]),
   og_image |-> ImageField(images["og"])]

\* data.featured_image instanceof File
IsFile(v) == v = NewFile

\* The body createPost / updatePost send: multipart when an image is a File,
\* JSON otherwise.  Undefined is a field that is not in the body.
RequestBody(data) ==
  IF IsFile(data.featured_image) \/ IsFile(data.og_image)
    THEN [format |-> "multipart", status |-> data.status,
          featured_image |-> Undefined, og_image |-> Undefined,
          featured_image_upload |-> IF IsFile(data.featured_image)
                                      THEN data.featured_image ELSE Undefined,
          og_image_upload |-> IF IsFile(data.og_image) THEN data.og_image ELSE Undefined]
    ELSE [format |-> "json", status |-> data.status,
          featured_image |-> data.featured_image, og_image |-> data.og_image,
          featured_image_upload |-> Undefined, og_image_upload |-> Undefined]

\* !isAutoSave && status === 'published' && initialData?.status === 'draft'
NeedsConfirmation(isAutoSave, status, initialStatus) ==
  ~isAutoSave /\ status = "published" /\ initialStatus = Str("draft")

\* handleSave after the title test and the confirmation: setIsSaving(true),
\* build postData, call createPost or updatePost.
SendSave(isAutoSave, closure) ==
  LET data == PostData(edTitle, edContent, edExcerpt, edCategories, edTags,
                       closure.status, closure.images)
  IN
  /\ edIsSaving' = TRUE
  /\ edSent' = [method |-> IF edSlug = Undefined THEN "POST" ELSE "PATCH",
                auto |-> isAutoSave, body |-> RequestBody(data), images |-> edImages]
  /\ edInFlight' = [create |-> edSlug = Undefined, data |-> data]

\* A click on the save button: handleSave().
ManualSave ==
  /\ edMounted
  /\ ~edIsSaving
  /\ ~(~edIsDirty /\ edStatus = edSavedStatus)
  /\ IF Trim(edTitle) = ""
       THEN UNCHANGED <<edIsSaving, edSent, edInFlight, edLastSave>>
       ELSE \E confirmed \in BOOLEAN :
              LET asked == NeedsConfirmation(FALSE, edStatus, edInitialStatus) IN
              /\ edLastSave' = [auto |-> FALSE, asked |-> asked,
                                confirmed |-> asked /\ confirmed,
                                firstPublish |-> edStatus = "published" /\ ~edEverPublished]
              /\ IF asked /\ ~confirmed
                   THEN UNCHANGED <<edIsSaving, edSent, edInFlight>>
                   ELSE SendSave(FALSE, SaveClosure(edStatus, edImages))
  /\ UNCHANGED <<edMounted, edSlug, edInitialStatus, edTitle, edContent, edExcerpt,
                 edCategories, edTags, edStatus, edSavedStatus, edImages, edIsDirty,
                 edTimer, edEverPublished>>
  /\ UNCHANGED <<serverVars, clientVars, themeVars, modeVars, fontVars, seoVars>>

\* Time passes while the auto-save timeout is pending.
Tick ==
  /\ edTimer # Null
  /\ edTimer.elapsed * TickMs < AUTO_SAVE_DELAY
  /\ edTimer' = [edTimer EXCEPT !.elapsed = @ + 1]
  /\ UNCHANGED <<edMounted, edSlug, edInitialStatus, edTitle, edContent, edExcerpt,
                 edCategories, edTags, edStatus, edSavedStatus, edImages, edIsDirty,
                 edIsSaving, edInFlight, edSent, edLastSave, edEverPublished>>
  /\ UNCHANGED <<serverVars, clientVars, themeVars, modeVars, fontVars, seoVars>>

\* The timeout fires: handleSave(true) of the render that set it.  An
\* earlier save has been answered by then.
AutoSaveFire ==
  /\ edTimer # Null
  /\ edTimer.elapsed * TickMs >= AUTO_SAVE_DELAY
  /\ edInFlight = Null
  /\ edTimer' = Null
  /\ IF Trim(edTitle) = ""
       THEN UNCHANGED <<edIsSaving, edSent, edInFlight, edLastSave>>
       ELSE /\ edLastSave' = [auto |-> TRUE, asked |-> FALSE, confirmed |-> FALSE,
                              firstPublish |-> edTimer.closure.status = "published"
                                               /\ ~edEverPublished]
            /\ SendSave(TRUE, edTimer.closure)
  /\ UNCHANGED <<edMounted, edSlug, edInitialStatus, edTitle, edContent, edExcerpt,
                 edCategories, edTags, edStatus, edSavedStatus, edImages, edIsDirty,
                 edEverPublished>>
  /\ UNCHANGED <<serverVars, clientVars, themeVars, modeVars, fontVars, seoVars>>

\* The image URLs in the server's answer: an image it holds, or none.
ResultUrls == {Null, ServerUrl}

\* createPost / updatePost settles.
SaveResponds ==
  /\ edInFlight # Null
  /\ \/ \* the call rejects: toast, finally setIsSaving(false)
        /\ edIsSaving' = FALSE
        /\ edInFlight' = Null
        /\ UNCHANGED <<edMounted, edSlug, edInitialStatus, edTitle, edContent, edExcerpt,
                       edCategories, edTags, edStatus, edSavedStatus, edImages, edIsDirty,
                       edTimer, edEverPublished>>
     \/ \E f \in ResultUrls, o \in ResultUrls :
          IF edInFlight.create
            THEN \* navigate to /blog/edit/<slug>: the editor is rendered anew
                 EditorRendered(PostSlug,
                   [initialStatus |-> Str(edInFlight.data.status),
                    status |-> edInFlight.data.status, title |-> edInFlight.data.title,
                    content |-> edInFlight.data.content, excerpt |-> edInFlight.data.excerpt,
                    categories |-> edInFlight.data.category_ids,
                    tags |-> edInFlight.data.tag_ids,
                    featured_image_url |-> f, og_image_url |-> o])
            ELSE /\ edImages' =
                      [t \in ImageTargets |->
                         LET url == IF t = "featured" THEN f ELSE o IN
                         Image(Null, IF url # Null THEN url ELSE edImages[t].preview)]
                 /\ edIsDirty' = FALSE
                 /\ edSavedStatus' = edInFlight.data.status
                 /\ edEverPublished' = (edEverPublished \/ edInFlight.data.status = "published")
                 /\ edIsSaving' = FALSE
                 /\ edInFlight' = Null
                 /\ edTimer' = TimerAfter(FALSE, edIsDirty, FALSE, edSlug,
                                          SaveClosure(edStatus, edImages'))
                 /\ UNCHANGED <<edMounted, edSlug, edInitialStatus, edTitle, edContent,
                                edExcerpt, edCategories, edTags, edStatus>>
  /\ UNCHANGED <<edSent, edLastSave>>
  /\ UNCHANGED <<serverVars, clientVars, themeVars, modeVars, fontVars, seoVars>>

(***************************************************************************)
(* hooks/useDynamicFonts.ts: preloadFont and loadFontWithSwap              *)
(***************************************************************************)
\* The families preloadFont is called with.
FontNames == {"Inter", "Open Sans", "Fira Code"}

\* encodeURIComponent(fontName)
encodeURIComponent(fontName) ==
  CASE fontName = "Open Sans" -> "Open%20Sans"
    [] fontName = "Fira Code" -> "Fira%20Code"
    [] OTHER -> fontName

localFontPath(normalizedName) == <<"/static/fonts/", normalizedName, "/font.css">>
GoogleFontsHref(fontName) ==
  <<"https://fonts.googleapis.com/css2?family=", encodeURIComponent(fontName),
    ":wght@400;500;600;700;800;900&display=swap">>
FontsourceHref(normalizedName) ==
  <<"https://cdn.jsdelivr.net/npm/@fontsource/", normalizedName, "@latest/index.css">>

\* The handlers loadFontWithSwap assigns to link.onerror, in order.
OnErrorAssignments(useGoogleFonts) ==
  IF useGoogleFonts THEN <<"google fallback", "reject">> ELSE <<"reject">>

\* link.onerror when the element is appended: the handler assigned last.
LinkOnError(useGoogleFonts) ==
  OnErrorAssignments(useGoogleFonts)[Len(OnErrorAssignments(useGoogleFonts))]

\* The <link> the promise executor of loadFontWithSwap appends.  `failed`
\* are the hrefs of this element whose load has failed.
FontLink(fontName, useGoogleFonts) ==
  [font |-> fontName,
   name |-> normalizeFontName(fontName),
   href |-> IF useGoogleFonts THEN localFontPath(normalizeFontName(fontName))
                              ELSE FontsourceHref(normalizeFontName(fontName)),
   loader |-> IF useGoogleFonts THEN "local" ELSE "fontsource",
   onerror |-> LinkOnError(useGoogleFonts),
   first |-> useGoogleFonts,
   state |-> "loading",
   failed |-> {}]

\* loadFontWithSwap: the element it appends, if any, with the caches as
\* they are at the call.
loadFontWithSwap(fontName, useGoogleFonts, loaded, promises) ==
  IF normalizeFontName(fontName) \in loaded THEN <<>>
  ELSE IF normalizeFontName(fontName) \in promises THEN <<>>
  ELSE <<FontLink(fontName, useGoogleFonts)>>

\* preloadFont(fontName), called by initializeFontPreloading for a web font
\* of the theme that was not preloaded before.
preloadFont ==
  \E fontName \in FontNames :
    LET normalizedName == normalizeFontName(fontName) IN
    /\ isWebFont(fontName)
    /\ normalizedName \notin preloadedFonts
    /\ preloadedFonts' = preloadedFonts \cup {normalizedName}
    /\ fontLinks' = fontLinks \o
                      loadFontWithSwap(fontName, TRUE, loadedFonts, fontLoadingPromises)
    /\ fontLoadingPromises' = fontLoadingPromises \cup {normalizedName}
    /\ loadedFonts' = loadedFonts \cup {normalizedName}
    /\ UNCHANGED <<envUseBackend, envFrontendTheme, themePc, themeNext, themeRequests,
                   themeSettings, themeIsLoading, themeError, domTheme>>
    /\ UNCHANGED <<serverVars, clientVars, modeVars, editorVars, seoVars>>

\* The stylesheet of a link element loads: link.onload.
LinkLoads ==
  \E i \in DOMAIN fontLinks :
    /\ fontLinks[i].state = "loading"
    /\ fontLinks' = [fontLinks EXCEPT ![i].state = "loaded"]
    /\ loadedFonts' = loadedFonts \cup {fontLinks[i].name}
    /\ UNCHANGED fontLoadingPromises
    /\ UNCHANGED <<serverVars, clientVars, themeVars, modeVars, editorVars, seoVars>>

\* The stylesheet of a link element fails to load: link.onerror runs.  The
\* fallback handler points the element to Google Fonts; the rejecting one
\* rejects the promise, and the catch of preloadFont's first call calls
\* loadFontWithSwap(fontName, false).
LinkFails ==
  \E i \in DOMAIN fontLinks :
    LET link == fontLinks[i]
        failedLink == [link EXCEPT !.failed = @ \cup {link.href}]
    IN
    /\ link.state = "loading"
    /\ IF link.onerror = "google fallback" /\ link.href # GoogleFontsHref(link.font)
         THEN fontLinks' = [fontLinks EXCEPT ![i] =
                              [failedLink EXCEPT !.href = GoogleFontsHref(link.font),
                                                 !.loader = "google-fonts"]]
         ELSE fontLinks' = [fontLinks EXCEPT ![i] = [failedLink EXCEPT !.state = "failed"]]
                             \o (IF link.first
                                   THEN loadFontWithSwap(link.font, FALSE, loadedFonts,
                                                         fontLoadingPromises)
                                   ELSE <<>>)
    /\ UNCHANGED <<loadedFonts, fontLoadingPromises>>
    /\ UNCHANGED <<serverVars, clientVars, themeVars, modeVars, editorVars, seoVars>>

FontIdle ==
  /\ loadedFonts = {}
  /\ fontLoadingPromises = {}
  /\ fontLinks = <<>>

(***************************************************************************)
(* components/blog/editor/SeoAnalysis.tsx: the debounced analysis          *)
(***************************************************************************)
SeoContents == {"", "c1", "c2"}
SeoTitles == {"", "T1"}
MetaDescriptions == {"", "m1"}
FocusKeywords == {"", "k1"}

SEO_DEBOUNCE == 1000
SeoTickMs == 500

SeoProps(content, title, metaDescription, focusKeyword, excerpt) ==
  [content |-> content, title |-> title, metaDescription |-> metaDescription,
   focusKeyword |-> focusKeyword, excerpt |-> excerpt]

\* new Paper(content, {keyword, title, description, excerpt, locale})
Paper(props) ==
  [text |-> props.content, keyword |-> props.focusKeyword, title |-> props.title,
   description |-> IF props.metaDescription # "" THEN props.metaDescription
                   ELSE props.excerpt,
   excerpt |-> props.excerpt, locale |-> "en_US"]

\* The results and overall scores the assessors give for a paper.
Assessed(paper) == [of |-> paper]
\* setSeoResults([]), setReadabilityResults([]), both scores 0
NoResults == [empty |-> TRUE]

\* The debounce effect's body: setTimeout(..., 1000) closing over the props.
SeoTimer(props) == [elapsed |-> 0, props |-> props]

\* The component is rendered by the editor with the post's fields.
SeoMount ==
  /\ ~seoMounted
  /\ \E content \in {"", "c1"}, title \in SeoTitles :
       LET props == SeoProps(content, title, "", "", "") IN
       /\ seoProps' = props
       /\ seoTimer' = SeoTimer(props)
  /\ seoMounted' = TRUE
  /\ lastAnalyzedContentRef' = ""
  /\ seoRunning' = Null
  /\ seoResults' = NoResults
  /\ UNCHANGED <<serverVars, clientVars, themeVars, modeVars, editorVars, fontVars>>

\* A prop changes: the effect's cleanup clears the timer, its body sets one.
SeoPropsChange(props) ==
  /\ seoMounted
  /\ props # seoProps
  /\ seoProps' = props
  /\ seoTimer' = SeoTimer(props)
  /\ UNCHANGED <<seoMounted, lastAnalyzedContentRef, seoRunning, seoResults>>
  /\ UNCHANGED <<serverVars, clientVars, themeVars, modeVars, editorVars, fontVars>>

SeoContentChange ==
  \E v \in SeoContents : SeoPropsChange([seoProps EXCEPT !.content = v])
SeoTitleChange ==
  \E v \in SeoTitles : SeoPropsChange([seoProps EXCEPT !.title = v])
SeoMetaDescriptionChange ==
  \E v \in MetaDescriptions : SeoPropsChange([seoProps EXCEPT !.metaDescription = v])
onFocusKeywordChange ==
  \E v \in FocusKeywords : SeoPropsChange([seoProps EXCEPT !.focusKeyword = v])
SeoExcerptChange ==
  \E v \in Excerpts : SeoPropsChange([seoProps EXCEPT !.excerpt = v])

\* Time passes while the debounce timeout is pending.
SeoTick ==
  /\ seoTimer # Null
  /\ seoTimer.elapsed * SeoTickMs < SEO_DEBOUNCE
  /\ seoTimer' = [seoTimer EXCEPT !.elapsed = @ + 1]
  /\ UNCHANGED <<seoMounted, seoProps, lastAnalyzedContentRef, seoRunning, seoResults>>
  /\ UNCHANGED <<serverVars, clientVars, themeVars, modeVars, editorVars, fontVars>>

\* The timeout fires, up to the first await.  An earlier analysis has
\* finished by then.
SeoTimerFires ==
  /\ seoTimer # Null
  /\ seoTimer.elapsed * SeoTickMs >= SEO_DEBOUNCE
  /\ seoRunning = Null
  /\ seoTimer' = Null
  /\ IF seoTimer.props.content = "" \/ seoTimer.props.title = ""
       THEN /\ seoResults' = NoResults
            /\ UNCHANGED <<lastAnalyzedContentRef, seoRunning>>
       ELSE IF seoTimer.props.content = lastAnalyzedContentRef
         THEN UNCHANGED <<lastAnalyzedContentRef, seoRunning, seoResults>>
         ELSE /\ lastAnalyzedContentRef' = seoTimer.props.content
              /\ seoRunning' = Paper(seoTimer.props)
              /\ UNCHANGED seoResults
  /\ UNCHANGED <<seoMounted, seoProps>>
  /\ UNCHANGED <<serverVars, clientVars, themeVars, modeVars, editorVars, fontVars>>

\* The imports resolve: the assessors run and the results are set.
SeoAnalysisDone ==
  /\ seoRunning # Null
  /\ seoResults' = Assessed(seoRunning)
  /\ seoRunning' = Null
  /\ UNCHANGED <<seoMounted, seoProps, seoTimer, lastAnalyzedContentRef>>
  /\ UNCHANGED <<serverVars, clientVars, themeVars, modeVars, editorVars, fontVars>>

SeoIdle ==
  /\ seoMounted = FALSE
  /\ seoProps = SeoProps("", "", "", "", "")
  /\ seoTimer = Null
  /\ lastAnalyzedContentRef = ""
  /\ seoRunning = Null
  /\ seoResults = NoResults

PageIdle == EditorIdle /\ FontIdle /\ SeoIdle

vars == <<serverVars, clientVars, themeVars, modeVars, pageVars>>

Init == ServerInit /\ ClientIdle /\ ThemeIdle /\ ModeIdle /\ PageIdle
Next == ServerNext
Spec == Init /\ [][Next]_vars

\* The requests the client sends.
CsrfInit == ServerIdle /\ ClientInit /\ storedUser = Null /\ ThemeIdle /\ ModeIdle /\ PageIdle
CsrfNext ==
  \/ \E i \in AuthInstances : MountAuth(i)
  \/ \E page \in AuthPages : AuthPageSubmit(page)
  \/ BlogApiCall
  \/ incrementViewCount
  \/ ThemeApiCall
  \/ CookieChange
CsrfSpec == CsrfInit /\ [][CsrfNext]_vars

\* The session as useAuth sees it.
AuthInit == ServerIdle /\ ClientInit /\ ThemeIdle /\ ModeIdle /\ PageIdle
AuthNext ==
  \/ \E i \in AuthInstances : MountAuth(i)
  \/ \E page \in AuthPages : AuthPageSubmit(page)
  \/ StorageEvent
  \/ Reload
AuthSpec == AuthInit /\ [][AuthNext]_vars

\* The useTheme hook: the initial theme load and the light and dark mode.
UseThemeInit == ServerIdle /\ ClientIdle /\ ThemeInit /\ ModeInit /\ PageIdle
ThemeLoadNext == LoadStart \/ BackendResponds \/ JsonResponds \/ ApplyLoadedTheme
UseThemeNext ==
  \/ RenderApp
  \/ LoadStart
  \/ BackendResponds
  \/ JsonResponds
  \/ ApplyLoadedTheme
  \/ RefreshStart
  \/ RefreshResponds
  \/ RefreshApply
  \/ SwitchStart
  \/ SwitchResponds
  \/ \E i \in ThemeInstances : ModeEffect(i)
  \/ toggleLightMode
  \/ SystemPreferenceChange
  \/ ReloadDocument
UseThemeSpec == UseThemeInit /\ [][UseThemeNext]_vars

\* The font loader.
FontInit == ServerIdle /\ ClientIdle /\ ThemeIdle /\ ModeIdle /\ PageIdle
FontNext ==
  \/ preloadFont
  \/ LinkLoads
  \/ LinkFails
FontSpec == FontInit /\ [][FontNext]_vars

\* The SEO panel of the editor.
SeoInit == ServerIdle /\ ClientIdle /\ ThemeIdle /\ ModeIdle /\ PageIdle
SeoNext ==
  \/ SeoMount
  \/ SeoContentChange
  \/ SeoTitleChange
  \/ SeoMetaDescriptionChange
  \/ onFocusKeywordChange
  \/ SeoExcerptChange
  \/ SeoTick
  \/ SeoTimerFires
  \/ SeoAnalysisDone
SeoSpec == SeoInit /\ [][SeoNext]_vars

\* The blog editor: choosing a status and saving.
EditorInit == ServerIdle /\ ClientIdle /\ ThemeIdle /\ ModeIdle /\ PageIdle
EditorSaveNext ==
  \/ EditorMount
  \/ EditorUnmount
  \/ SetTitle
  \/ SetStatus
  \/ ManualSave
  \/ Tick
  \/ AutoSaveFire
  \/ SaveResponds
EditorSaveSpec == EditorInit /\ [][EditorSaveNext]_vars

\* The blog editor: editing the text and auto-save.
EditorAutoSaveNext ==
  \/ EditorMount
  \/ EditorUnmount
  \/ SetTitle
  \/ SetContent
  \/ SetExcerpt
  \/ SetSelectedCategories
  \/ SetSelectedTags
  \/ ManualSave
  \/ Tick
  \/ AutoSaveFire
  \/ SaveResponds
EditorAutoSaveSpec == EditorInit /\ [][EditorAutoSaveNext]_vars

\* The blog editor: its images and saving.
EditorImageNext ==
  \/ EditorMount
  \/ EditorUnmount
  \/ SetTitle
  \/ handleImageChange
  \/ handleRemoveImage
  \/ handleImageFromLibrary
  \/ ManualSave
  \/ SaveResponds
EditorImageSpec == EditorInit /\ [][EditorImageNext]_vars

(***************************************************************************)
(* Claims about the server                                                 *)
(***************************************************************************)
Answered == phase = "serving" /\ lastReq # Null
LoadDone ==
  \/ phase = "serving"
  \/ phase = "loading" /\ todo = <<>>
  \/ phase = "exited" /\ dirReadable

\* The URL of a node, whatever the platform's separator: '/' + its segments
\* joined by '/'.
UrlOf(node) == <<"/">> \o JoinSegments(node, "/")
NodeAt(pathname) == CHOOSE n \in Nodes : UrlOf(n) = pathname
NonEmptyFiles == {n \in Nodes : disk[n].kind = "file" /\ disk[n].size > 0}
Registered == {r \in Pathnames : assets[r] # Undefined}

\* C1: every request is answered from the asset registered under its
\* pathname (in-memory bytes, their gzip, a 304, or the file at the recorded
\* disk path) when there is one, and with the index.html shell, 200 and
\* Content-Type text/html otherwise; never with 404.
C1_FetchAssetOrShell ==
  Answered =>
    LET asset == assets[lastReq.pathname] IN
    /\ lastResp.status # 404
    /\ lastResp.status \in {200, 304}
    /\ asset # Undefined =>
         \/ lastResp.status = 304 /\ lastResp.body = Null
         \/ /\ lastResp.status = 200
            /\ lastResp.headers.contentType = Str(asset.type)
            /\ IF asset.content # Null
                 THEN lastResp.body \in {asset.content, asset.gzipped}
                 ELSE /\ asset.path # Undefined
                      /\ lastResp.body = [file |-> asset.path.str]
    /\ asset = Undefined =>
         /\ lastResp.status = 200
         /\ lastResp.headers.contentType = Str("text/html")
         /\ lastResp.body = [html |-> ContentOf(IndexNode)]

C1_Witness ==
  /\ Answered
  /\ lastReq.pathname = <<"/", "blog">>
  /\ lastResp.status = 200
  /\ lastResp.body = [html |-> ContentOf(IndexNode)]

\* C2: once loadStaticAssets is done, every non-empty file has one entry
\* under '/' + its relative path, in memory (bytes, no disk path) when its
\* size is <= MAX_ASSET_SIZE and on disk (no bytes, path recorded) when it
\* is larger; nothing else is registered.
C2_OneEntryOneTier ==
  LoadDone =>
    /\ Registered = {UrlOf(n) : n \in NonEmptyFiles}
    /\ Cardinality(Registered) = Cardinality(NonEmptyFiles)
    /\ \A n \in NonEmptyFiles :
         LET asset == assets[UrlOf(n)] IN
         IF disk[n].size <= 5 * 1024 * 1024
           THEN /\ asset.content = ContentOf(n)
                /\ asset.path = Undefined
           ELSE /\ asset.content = Null
                /\ asset.path = Str(RelativePath(n))

C2_Witness ==
  /\ LoadDone
  /\ pathSep = "\\"
  /\ disk[NestedNode].size = 5 * 1024 * 1024
  /\ disk[BlobNode].size = 5 * 1024 * 1024 + 1
  /\ assets[UrlOf(NestedNode)].content # Null
  /\ assets[UrlOf(BlobNode)].content = Null

\* C3: for a registered asset the answer is 304 with an empty body exactly
\* when the asset has an ETag and If-None-Match equals it, whatever
\* Accept-Encoding says; otherwise it is 200 with a body.
C3_NotModifiedIffEtagMatch ==
  (Answered /\ assets[lastReq.pathname] # Undefined) =>
    LET asset == assets[lastReq.pathname]
        matches == asset.etag # Undefined /\ lastReq.ifNoneMatch = asset.etag
    IN  /\ (lastResp.status = 304) <=> matches
        /\ matches => lastResp.body = Null
        /\ ~matches => lastResp.status = 200 /\ lastResp.body # Null

C3_Witness ==
  /\ Answered
  /\ assets[lastReq.pathname] # Undefined
  /\ assets[lastReq.pathname].gzipped # Undefined
  /\ lastReq.acceptEncoding = Str(Gzip)
  /\ lastResp.status = 304

\* C4: a 200 answer for a registered asset is the gzipped body with
\* Content-Encoding: gzip exactly when the asset is in memory, its content
\* is longer than 1024 bytes and Accept-Encoding contains 'gzip'; otherwise
\* it is the uncompressed content without a Content-Encoding header.
C4_GzipIffBigAndAccepted ==
  (Answered /\ assets[lastReq.pathname] # Undefined /\ lastResp.status = 200) =>
    LET asset == assets[lastReq.pathname]
        n == NodeAt(lastReq.pathname)
        wanted == /\ disk[n].size <= 5 * 1024 * 1024
                  /\ disk[n].size > 1024
                  /\ lastReq.acceptEncoding # Null
                  /\ Includes(lastReq.acceptEncoding.str, <<"g", "z", "i", "p">>)
    IN  IF wanted
          THEN /\ lastResp.body = gzipContent(ContentOf(n))
               /\ lastResp.headers.contentEncoding = Str("gzip")
          ELSE /\ lastResp.headers.contentEncoding = Undefined
               /\ lastResp.body = IF disk[n].size <= 5 * 1024 * 1024
                                    THEN ContentOf(n)
                                    ELSE [file |-> RelativePath(n)]

C4_Witness ==
  /\ Answered
  /\ assets[lastReq.pathname] # Undefined
  /\ disk[NodeAt(lastReq.pathname)].size = 1025
  /\ lastResp.status = 200
  /\ lastResp.headers.contentEncoding = Str("gzip")

\* C5 as stated: every registered asset has an ETag computed from its
\* content, and every 200 answer for a registered asset carries it.
C5_EveryAssetHasEtag ==
  /\ LoadDone =>
       \A r \in Registered : assets[r].etag = generateETag(ContentOf(NodeAt(r)))
  /\ (Answered /\ assets[lastReq.pathname] # Undefined /\ lastResp.status = 200) =>
       lastResp.headers.etag = generateETag(ContentOf(NodeAt(lastReq.pathname)))

\* C5 amended: every asset held in memory has an ETag computed from its
\* content and every 200 answer for it carries that ETag; an asset served
\* from disk has no ETag and its answers carry no ETag header.
C5_MemoryAssetsHaveEtag ==
  /\ LoadDone =>
       \A n \in NonEmptyFiles :
         assets[UrlOf(n)].etag =
           IF disk[n].size <= 5 * 1024 * 1024
             THEN [quote |-> "\"", hex |-> <<"md5", n[Len(n)], disk[n].size>>,
                   weak |-> FALSE]
             ELSE Undefined
  /\ (Answered /\ assets[lastReq.pathname] # Undefined /\ lastResp.status = 200) =>
       LET n == NodeAt(lastReq.pathname) IN
       lastResp.headers.etag =
         IF disk[n].size <= 5 * 1024 * 1024
           THEN [quote |-> "\"", hex |-> <<"md5", n[Len(n)], disk[n].size>>,
                 weak |-> FALSE]
           ELSE Undefined

C5_Witness ==
  /\ Answered
  /\ assets[lastReq.pathname] # Undefined
  /\ assets[lastReq.pathname].content # Null
  /\ lastResp.status = 200
  /\ lastResp.headers.etag = generateETag(ContentOf(NodeAt(lastReq.pathname)))

(***************************************************************************)
(* Claims about the client's requests and session                          *)
(***************************************************************************)
\* C6: every state-changing request the client sends carries, in
\* X-CSRFToken, the token read from the '<project>_csrftoken' cookie, and
\* none is sent while that cookie is absent.
C6_EveryWriteCarriesCsrfToken ==
  lastSent # Null =>
    LET token == getCookieFrom(lastSent.cookie, <<PROJECT_NAME, "_", "csrftoken">>) IN
    /\ token # Null
    /\ lastSent.xCsrfToken = token

\* C7: after the Logout page has completed a successful logout, every
\* mounted useAuth instance has user null and isAuthenticated false, and a
\* later updateAuthState still yields isAuthenticated false.
C7_LoggedOutAfterLogout ==
  lastAuthEvent = "logout ok" =>
    /\ \A i \in listening : auth[i].user = Null /\ ~auth[i].isAuthenticated
    /\ ~updateAuthStateResult(storedUser).isAuthenticated

(***************************************************************************)
(* Claims about useTheme                                                   *)
(***************************************************************************)
RequestFailed(r) == r.outcome \in {Str(f) : f \in BackendFailures \cup JsonFailures}
EnvThemeUrl == StaticThemeUrl(OrVercel(envFrontendTheme))
LoadDoneTheme == themePc = "done"

\* C8: unless VITE_USE_BACKEND_THEMES is the string 'true', loadAndApplyTheme
\* never calls the backend theme API and loads
\* /static/themes/<VITE_FRONTEND_THEME or 'vercel'>.json; when it is 'true',
\* /api/v1/themes/current/ is asked first, and a frontend JSON is requested
\* or used only after the backend call failed or returned a fallback
\* instruction.
C8_ThemeSourceByEnv ==
  /\ themePc # "idle" => Len(themeRequests) >= 1
  /\ envUseBackend # Str("true") =>
       /\ \A i \in 1..Len(themeRequests) : themeRequests[i].url = EnvThemeUrl
       /\ (LoadDoneTheme /\ themeRequests[1].outcome = Str("ok")) =>
            themeSettings = ThemeFromJson(ThemeJson(OrVercel(envFrontendTheme)))
  /\ envUseBackend = Str("true") =>
       /\ \A i \in 1..Len(themeRequests) : (themeRequests[i].url = BackendUrl) <=> (i = 1)
       /\ Len(themeRequests) >= 2 =>
            \/ RequestFailed(themeRequests[1])
            \/ themeRequests[1].outcome \in BackendFallbacks
       /\ (LoadDoneTheme /\ themeRequests[1].outcome = Str("theme")) =>
            themeSettings = apiThemeToThemeData(ApiTheme)

\* In backend mode the backend answered with a fallback instruction and the
\* theme it named was loaded from the static JSON.
C8_Witness ==
  /\ LoadDoneTheme
  /\ envUseBackend = Str("true")
  /\ Len(themeRequests) = 2
  /\ themeRequests[1].url = BackendUrl
  /\ themeRequests[1].outcome \in BackendFallbacks
  /\ themeRequests[2].url = StaticThemeUrl("cyberpunk")
  /\ themeSettings.name = "cyberpunk"

\* What every finished initial load has in common.
LoadEndsWithTheme ==
  /\ (themePc \in {"await backend", "await json", "await fonts"}) => ENABLED ThemeLoadNext
  /\ Len(themeRequests) <= 3
  /\ LoadDoneTheme =>
       /\ ~themeIsLoading
       /\ themeSettings # Null
       /\ domTheme # Null
       /\ domTheme = applyThemeToDOM(themeSettings)
       \* backend theme, then frontend JSON, then the hardcoded theme
       /\ \A i \in 1..Len(themeRequests) : themeRequests[i].url = BackendUrl => i = 1
       /\ \A i \in 1..Len(themeRequests) - 1 :
            RequestFailed(themeRequests[i]) \/ themeRequests[i].outcome \in BackendFallbacks
       /\ LET last == themeRequests[Len(themeRequests)] IN
          /\ last.outcome = Str("theme") <=> themeSettings = apiThemeToThemeData(ApiTheme)
          /\ last.outcome = Str("ok") <=> themeSettings.name \in FrontendThemeNames
          /\ RequestFailed(last) <=> themeSettings = getFallbackTheme

\* The source tried first: the backend theme when VITE_USE_BACKEND_THEMES is
\* 'true', the frontend JSON otherwise.
FirstChoiceLoaded ==
  IF envUseBackend = Str("true")
    THEN themeSettings = apiThemeToThemeData(ApiTheme)
    ELSE themeSettings.name \in FrontendThemeNames

\* C9 as stated: every initial load ends with isLoading false, a theme in
\* themeSettings and its CSS variables in the document, the sources tried
\* in the order backend, frontend JSON, hardcoded; and the error is null
\* exactly when the theme comes from the first-choice source.
C9_ErrorNullIffFirstChoice ==
  /\ LoadEndsWithTheme
  /\ LoadDoneTheme => ((themeError = Null) <=> FirstChoiceLoaded)

\* C9, amended: the same, but the error is null exactly when no request of
\* the load failed; this includes the backend answering with a fallback
\* instruction and the frontend JSON it names loading.
C9_ErrorNullIffNoFailure ==
  /\ LoadEndsWithTheme
  /\ LoadDoneTheme =>
       ((themeError = Null) <=>
          \A i \in 1..Len(themeRequests) : ~RequestFailed(themeRequests[i]))

\* The backend answered with a fallback instruction naming no theme, the
\* 'vercel' JSON loaded, and the load ended without an error.
C9_Witness ==
  /\ LoadDoneTheme
  /\ envUseBackend = Str("true")
  /\ envFrontendTheme = Str("nature")
  /\ themeRequests[1].outcome = [fallback |-> TRUE, theme_name |-> Undefined]
  /\ themeRequests[2] = ThemeRequest(StaticThemeUrl("vercel"), Str("ok"))
  /\ themeSettings.name = "vercel"
  /\ themeError = Null
  /\ ~themeIsLoading

\* C10: once the mode effects have run, the root has class 'dark' iff
\* lightMode is false and localStorage 'theme-mode' is 'light' or 'dark'
\* accordingly; an even number of toggleLightMode calls restores class and
\* stored value; at start a stored 'theme-mode' decides lightMode whatever
\* the system preference is.
C10_DarkClassFollowsLightMode ==
  LET light == lightMode["ThemeToggle"] IN
  /\ (themeMounted # {} /\ modePending = {}) =>
       /\ rootDark = ~light
       /\ storedMode = ModeName(light)
       /\ modeSettled # Null
       /\ toggleCount % 2 = 0 =>
            rootDark = modeSettled.dark /\ storedMode = modeSettled.stored
       /\ toggleCount % 2 = 1 =>
            rootDark # modeSettled.dark /\ storedMode # modeSettled.stored
  /\ (themeMounted # {} /\ toggleCount = 0 /\ storedMode # Null) =>
       \A i \in ThemeInstances : lightMode[i] = (storedMode = Str("light"))

\* Stored 'light' on a system that prefers dark, toggled twice.
C10_Witness ==
  /\ themeMounted # {}
  /\ modePending = {}
  /\ toggleCount = 2
  /\ prefersDark
  /\ modeSettled = [dark |-> FALSE, stored |-> Str("light")]
  /\ ~rootDark
  /\ storedMode = Str("light")

(***************************************************************************)
(* Claims about signup                                                     *)
(***************************************************************************)
\* C11: while the success screen of a successful signup is shown, useAuth
\* reports the user as logged in: every mounted instance has
\* isAuthenticated true and a user.
C11_SignupLogsIn ==
  (signupSuccess /\ lastAuthEvent = "signup ok") =>
    \A i \in listening : auth[i].isAuthenticated /\ auth[i].user # Null

(***************************************************************************)
(* Claims about the server's start and lifetime                            *)
(***************************************************************************)
StartFails == ~dirReadable \/ disk[IndexNode].kind # "file"

\* C12: a request is answered only once loadStaticAssets has visited every
\* entry and index.html has been read; if readdir or the read of index.html
\* fails the process exits with code 1 and answers nothing; once serving,
\* the asset map and the shell never change, and every answer is the one the
\* handler computes from the request, the map and the shell alone.
C12_ServeAfterLoadThenImmutable ==
  /\ [](lastResp # Null => phase = "serving")
  /\ [](phase = "serving" =>
          /\ todo = <<>>
          /\ indexHtml = Str(ContentOf(IndexNode))
          /\ ~StartFails
          /\ exitCode = Null
          /\ \A n \in NonEmptyFiles \ {DirNode} : assets[UrlOf(n)] # Undefined)
  /\ [](StartFails => phase # "serving" /\ lastResp = Null)
  /\ [](phase = "exited" <=> exitCode = [code |-> 1])
  /\ [](phase = "exited" => StartFails /\ lastResp = Null)
  /\ [][phase = "serving" =>
          /\ phase' = "serving"
          /\ assets' = assets
          /\ indexHtml' = indexHtml]_vars
  /\ [](lastResp # Null =>
          /\ lastResp.status = FetchHandler(lastReq).status
          /\ lastResp.headers = FetchHandler(lastReq).headers)

\* The server has answered a request for a registered asset.
C12_Witness ==
  /\ phase = "serving"
  /\ lastResp # Null
  /\ assets[lastReq.pathname] # Undefined
  /\ lastResp.headers.etag # Undefined

(***************************************************************************)
(* Claims about the order of DOM and state in useTheme                     *)
(***************************************************************************)
\* C13: whenever themeSettings holds a theme (after the initial load,
\* refreshTheme or switchTheme set it), that theme's CSS variables are
\* already in the document.
C13_DomBeforeThemeSettings ==
  themeSettings # Null =>
    /\ themeSettings.css_vars # Undefined
    /\ domTheme = applyThemeToDOM(themeSettings)


(***************************************************************************)
(* The blog editor's claims                                                *)
(***************************************************************************)
\* handleSave ran past its title test in this step.
SaveAttempted == edLastSave' # Null /\ edLastSave' # edLastSave

\* C14: a manual save asks for confirmation exactly when it would publish
\* the post for the first time (status 'published' and the post not
\* published before, a new never-saved post included); when the user
\* declines, no request is sent and no editor state changes.
C14_ConfirmIffFirstPublish ==
  /\ []((edLastSave # Null /\ ~edLastSave.auto) =>
          (edLastSave.asked <=> edLastSave.firstPublish))
  /\ [][(SaveAttempted /\ edLastSave'.asked /\ ~edLastSave'.confirmed) =>
          UNCHANGED <<edMounted, edSlug, edInitialStatus, edTitle, edContent,
                      edExcerpt, edCategories, edTags, edStatus, edSavedStatus,
                      edImages, edIsDirty, edIsSaving, edTimer, edInFlight, edSent,
                      edEverPublished>>]_vars


\* One of the five fields the auto-save effect depends on changed in this
\* step of a mounted editor.
TextChanged ==
  /\ edMounted /\ edMounted'
  /\ <<edTitle, edContent, edExcerpt, edCategories, edTags>>' #
       <<edTitle, edContent, edExcerpt, edCategories, edTags>>

\* C15: an auto-save is pending only in an editor of an existing post (slug
\* defined) with isDirty true; a post never saved is never auto-saved; an
\* auto-save fires only with isDirty true, 60 seconds after its timer was
\* set; each change of title, content, excerpt, selected categories or
\* selected tags replaces the pending timer by a new one that has the whole
\* 60 seconds to run.
C15_AutoSaveOnlyDirtyExisting ==
  /\ [](edTimer # Null => edMounted /\ edSlug # Undefined /\ edIsDirty)
  /\ []((edSent # Null /\ edSent.auto) => edSent.method = "PATCH")
  /\ [][(~edIsSaving /\ edIsSaving' /\ edLastSave'.auto) =>
          /\ edIsDirty /\ edSlug # Undefined
          /\ edTimer # Null /\ edTimer.elapsed * TickMs >= 60000]_vars
  /\ [][TextChanged =>
          edTimer' = IF edIsDirty' /\ edSlug' # Undefined
                       THEN [elapsed |-> 0,
                             closure |-> [status |-> edStatus', images |-> edImages']]
                       ELSE Null]_vars

\* An auto-save was sent, and while it is in flight a change of the
\* categories has started a new countdown.
C15_Witness ==
  /\ edSent # Null /\ edSent.auto /\ edIsSaving
  /\ edCategories # <<>>
  /\ edTimer # Null /\ edTimer.elapsed = 0


\* The field of the request body that carries the URL of an image.
SentUrl(target) ==
  IF target = "featured" THEN edSent.body.featured_image ELSE edSent.body.og_image

RequestedHrefs(name) ==
  UNION {{fontLinks[i].href} \cup fontLinks[i].failed :
           i \in {j \in DOMAIN fontLinks : fontLinks[j].name = name}}
FailedHrefs(name) ==
  UNION {fontLinks[i].failed : i \in {j \in DOMAIN fontLinks : fontLinks[j].name = name}}

\* C17: for a web font, the local stylesheet /static/fonts/<name>/font.css
\* is requested first; when it has failed the Google Fonts stylesheet is
\* requested; when that has failed the Fontsource stylesheet is requested.
C17_FontFallbackChain ==
  \A f \in FontNames :
    LET n == normalizeFontName(f) IN
    n \in preloadedFonts =>
      /\ <<"/static/fonts/", n, "/font.css">> \in RequestedHrefs(n)
      /\ <<"/static/fonts/", n, "/font.css">> \in FailedHrefs(n) =>
           \E h \in RequestedHrefs(n) : h[1] = "https://fonts.googleapis.com/css2?family="
      /\ (\E h \in FailedHrefs(n) : h[1] = "https://fonts.googleapis.com/css2?family=") =>
           \E h \in RequestedHrefs(n) : h[1] = "https://cdn.jsdelivr.net/npm/@fontsource/"

(***************************************************************************)
(* The SEO panel's claim                                                   *)
(***************************************************************************)
\* The debounce has run out and no analysis is running.
SeoSettled == seoMounted /\ seoTimer = Null /\ seoRunning = Null

\* C18: once the debounce of the last change of focus keyword, title, meta
\* description, excerpt or content has run out and the analysis has
\* finished, with content and title non-empty, the panel displays the
\* results for the current inputs.
C18_ResultsOfLatestInputs ==
  (SeoSettled /\ seoProps.content # "" /\ seoProps.title # "") =>
    seoResults = Assessed(Paper(seoProps))

====
